---- MODULE Spec2Model ----
(***************************************************************************)
(* Model of the image build engine of cntnr                               *)
(* (image/builder/imagebuilder.go): ImageBuilder with its step list,      *)
(* BuildState with its cached build operations, and the collaborators the *)
(* operations drive (image store, build cache, bundle store).             *)
(***************************************************************************)
EXTENDS Integers, Sequences, FiniteSets, TLC

(***************************************************************************)
(* Bounds of the model.                                                    *)
(***************************************************************************)
\* longest step list added to an ImageBuilder
MaxSteps == 3
\* number of Build calls on the ImageBuilder
MaxBuilds == 2
\* number of operations a client calls directly on its BuildStates
MaxOps == 4
\* number of BuildStates a client creates directly
MaxSessions == 1
\* number of collaborator failures injected into a behaviour
MaxFaults == 1
\* number of images removed by garbage collection
MaxGC == 1
\* number of instructions of a Dockerfile
MaxInstr == 4
\* number of instructions of a Dockerfile made of the second set of instructions
MaxRead == 3
\* number of Lock / TryLock calls of all threads together
MaxCalls == 4
\* number of file system failures injected into the calls on a lockfile
MaxLockFaults == 1
\* number of port mappings added to a SpecBuilder
MaxPorts == 2
\* number of Spec calls on a SpecBuilder
MaxSpecCalls == 2
\* width of a uid or gid in bits (the 32 of uint32, scaled down)
IdBits == 8
\* number of tar entries unpacked into a rootfs
MaxEntries == 2
\* number of tar entries unpacked into a directory before its opaque whiteout
MaxHeaders == 3

(***************************************************************************)
(* Inputs of the operations.                                               *)
(***************************************************************************)
ImageNames == {"alpine"}
Authors == {"max"}
RunCmds == {"r1"}
Tags == {"t1"}
Patterns == {"f1"}
\* paths are sequences of segments, absolute ones start with "/"
Dirs == {<<"/", "app">>, <<"sub">>}
ArgLists == {<<"/bin/echo", "x">>}
\* the threads that use one lockfile, and the process each belongs to
Threads == {1, 2, 3}
Procs == {1, 2}
ProcOf(t) == IF t = 3 THEN 2 ELSE 1

VARIABLES
    steps,      \* ImageBuilder.steps
    phase,      \* "idle" | "build" (inside Build's loop) | "direct" (a client owns a BuildState)
    idx,        \* position of Build's loop in steps
    buildErr,   \* err of Build's loop
    results,    \* what the Build calls returned, in order
    nbuilds,    \* Build calls so far (also the clock of time.Now)
    nsessions,  \* BuildStates created by a client so far
    nops,       \* operations called on the client's BuildState
    ngc,        \* images collected so far
    nfaults,    \* collaborator failures injected so far
    image,      \* BuildState.image: {} (nil) or {img}
    config,     \* BuildState.config
    bundle,     \* BuildState.bundle: 0 (nil) or the id of a LockedBundle
    proot,      \* BuildState.proot: the path of proot, "" for none
    images,     \* image store: the images that can be loaded
    tags,       \* image store: name -> image
    cache,      \* build cache: [parent, fp] -> image id
    bundles,    \* bundle store: bundle id -> bundle
    last,       \* record of the last BuildState operation and the calls it made
    ran,        \* the steps Build's loop has run, with the error each returned
                \* and the error of the operation it called
    \* DockerfileBuilder (image/builder/dockerfile/dockerfile.go)
    dfPhase,    \* "none" | "load" | "loaded" | "failed" | "apply" | "applied"
    buildArgs,  \* DockerfileBuilder.buildArgs
    ops,        \* DockerfileBuilder.ops
    envMap,     \* DockerfileBuilder.envMap: the names declared by ENV
    runEnvMap,  \* DockerfileBuilder.runEnvMap
    varScope,   \* DockerfileBuilder.varScope
    imageCount, \* DockerfileBuilder.imageCount
    shell,      \* DockerfileBuilder.shell: the list, the capacity and the id of its array
    warned,     \* what was printed to DockerfileBuilder.warn
    nodes,      \* the instructions readNode has read, with the state each left
    loadErr,    \* err of LoadDockerfile
    applyIdx,   \* position of Apply's loop in ops
    applyErr,   \* err of Apply
    bcalls,     \* the calls Apply made on the ImageBuilder, with their results
    \* Lockfile (pkg/lock/lockfile.go)
    pc,         \* position of each thread in TryLock / Lock / Unlock
    mutex,      \* per process: the thread holding the mutex of the file, 0 for none
    lockfile,   \* the process whose pid the lockfile holds, 0 when there is no file
    watching,   \* the threads whose watcher is registered on the lockfile
    events,     \* the threads whose watcher has a file event pending
    ret,        \* what the last call of each thread returned
    ncalls,     \* Lock / TryLock calls made so far
    lkfaults,   \* failures of the file system injected so far
    \* SpecBuilder (unnamed/part_000)
    sb,         \* the fields of the SpecBuilder
    gspec,      \* the runtime spec of its Generator
    rets,       \* what the Spec calls returned, in order
    sbghost,    \* the calls made on the SpecBuilder and the ports given to it
    \* unpacking of tar entries into a rootfs
    tfs,        \* the file system of the host: path -> directory, file or symlink
    unpacked,   \* the entries unpackEntry was called with, and where each was written
    te          \* the tarExtractors made so far by newTarExtractor (the last is in use)

bvars == <<steps, phase, idx, buildErr, results, nbuilds, nsessions, nops, ngc, nfaults,
           image, config, bundle, proot, images, tags, cache, bundles, last, ran>>

dfvars == <<dfPhase, buildArgs, ops, envMap, runEnvMap, varScope, imageCount, warned,
            nodes, loadErr, applyIdx, applyErr, bcalls, shell>>

lkvars == <<pc, mutex, lockfile, watching, events, ret, ncalls, lkfaults>>

sbvars == <<sb, gspec, rets, sbghost>>

tvars == <<tfs, unpacked, te>>

vars == <<bvars, dfvars, lkvars, sbvars, tvars>>

(***************************************************************************)
(* Data.                                                                   *)
(***************************************************************************)
\* zero value of ispecs.Image
EmptyConfig ==
    [Created |-> 0, Author |-> "", WorkingDir |-> <<>>, Entrypoint |-> <<>>,
     Cmd |-> <<>>, History |-> <<>>]

\* a fingerprint / history comment: the operation's keyword and its formatted argument
FP(op, arg) == [op |-> op, arg |-> arg]
NoFP == FP("", <<>>)

\* the images ImportImage can fetch, by name
Registry ==
    [n \in ImageNames |->
        [config |-> [EmptyConfig EXCEPT
                        !.Cmd = <<"/bin/sh">>,
                        !.History = <<[CreatedBy |-> "", Comment |-> FP("ADD", <<n>>),
                                       EmptyLayer |-> FALSE]>>],
         layers |-> << <<"base", n>> >>]]

\* Image.ID(): images are content-addressed, the image value stands for its digest
ImageID(img) == img

TheImage(s) == CHOOSE i \in s : TRUE

\* result of an operation: the new world and the returned error ("nil" for none)
R(w, err) == [w |-> w, err |-> err]

Log(w, call) == [w EXCEPT !.calls = Append(@, call)]

\* the failures of collaborators that can be injected into an operation
FaultSets(relevant, n) == {F \in SUBSET relevant : Cardinality(F) <= MaxFaults - n}

\* filepath.IsAbs / filepath.Join on segment lists
IsAbs(p) == Len(p) > 0 /\ p[1] = "/"
absFile(p, baseDir) == IF IsAbs(p) THEN p ELSE baseDir \o p


(***************************************************************************)
(* The world an operation of BuildState acts on: the fields of the state,  *)
(* the stores behind its collaborators, and the log of the calls made.     *)
(***************************************************************************)
World ==
    [image |-> image, config |-> config, bundle |-> bundle, proot |-> proot,
     images |-> images, tags |-> tags, cache |-> cache, bundles |-> bundles,
     fp |-> NoFP, calls |-> <<>>, acts |-> <<>>, puts |-> <<>>, commits |-> <<>>]

(***************************************************************************)
(* Collaborators (image store, build cache, bundle store).                 *)
(***************************************************************************)
\* ImageBuildCache.Get: "hit", or "miss" (the temporary CacheError), or "error"
CacheGet(c, parent, fp, F) ==
    IF "get" \in F THEN "error"
    ELSE IF [parent |-> parent, fp |-> fp] \in DOMAIN c THEN "hit"
    ELSE "miss"

CacheValue(c, parent, fp) == c[[parent |-> parent, fp |-> fp]]

\* ImageBuildCache.Put
CachePut(c, parent, fp, id) ==
    LET key == [parent |-> parent, fp |-> fp]
    IN  [k \in DOMAIN c \cup {key} |-> IF k = key THEN id ELSE c[k]]

\* ImageStore.Image(id): the image loads when it is in the store
ImageLoads(w, id, F) == id \in w.images /\ "load" \notin F

\* ImageStore.AddImageConfig(config, parent): the layer list is the parent's
AddImageConfig(cfg, parent) ==
    [config |-> cfg,
     layers |-> IF parent = {} THEN <<>> ELSE TheImage(parent).layers]

\* ImageStore.AddImageLayer(rootfs, parent, author, comment): the parent's
\* config with one more history entry, the parent's layers with one more layer
AddImageLayer(layer, parent, author, comment) ==
    LET pcfg == IF parent = {} THEN EmptyConfig ELSE TheImage(parent).config
        players == IF parent = {} THEN <<>> ELSE TheImage(parent).layers
    IN  [config |-> [pcfg EXCEPT !.History =
                        Append(@, [CreatedBy |-> author, Comment |-> comment,
                                   EmptyLayer |-> FALSE])],
         layers |-> Append(players, layer)]

\* LockedBundle.Close
BundleClose(w) ==
    [Log(w, "Bundle.Close") EXCEPT
        !.bundles[w.bundle].locked = FALSE,
        !.bundles[w.bundle].closes = @ + 1]

(***************************************************************************)
(* BuildState.                                                             *)
(***************************************************************************)
\* NewBuildState
NewBuildState == [image |-> {}, config |-> EmptyConfig, bundle |-> 0]

\* setImage that forgets to take over the config of the image
setImage_ImageOnly(w, img, F) ==
    IF "config" \in F
    THEN [w |-> [w EXCEPT !.image = {img}], err |-> "image config"]
    ELSE [w |-> [w EXCEPT !.image = {img}], err |-> "nil"]

\* BuildState.setImage: b.image = img; b.config, err = img.Config()
setImage(w, img, F) ==
    IF "config" \in F
    THEN R([w EXCEPT !.image = {img}, !.config = EmptyConfig], "image config")
    ELSE R([w EXCEPT !.image = {img}, !.config = img.config], "nil")

\* the history entry commitConfig appends
ConfigHistoryEntry(author, comment) ==
    [CreatedBy |-> author, Comment |-> comment, EmptyLayer |-> FALSE]

\* BuildState.commitConfig
commitConfig(w, comment, F) ==
    LET cfg == [w.config EXCEPT !.History =
                    Append(@, ConfigHistoryEntry(w.config.Author, comment))]
        w1 == Log([w EXCEPT !.config = cfg], "AddImageConfig")
    IN  IF "commit" \in F THEN R(w1, "commit config")
        ELSE LET img == AddImageConfig(cfg, w.image)
                 w2 == [w1 EXCEPT
                          !.images = @ \cup {img},
                          !.commits = Append(@, [kind |-> "config", parent |-> w.image,
                                                  config |-> cfg, author |-> "",
                                                  comment |-> comment, layer |-> <<>>,
                                                  result |-> img])]
                 Stored(r) == IF r.err # "nil" THEN R(r.w, "commit config") ELSE r
             IN  Stored(setImage(w2, img, F))

\* the parent image commitLayer passes to AddImageLayer: b.bundle.Image()
LayerParent(w) == w.bundles[w.bundle].image

\* BuildState.commitLayer
commitLayer(w, comment, layer, F) ==
    LET parent == LayerParent(w)
        w1 == Log(w, "AddImageLayer")
    IN  IF "commit" \in F THEN R(w1, "commit layer")
        ELSE LET img == AddImageLayer(layer, parent, w.config.Author, comment)
                 w2 == [w1 EXCEPT
                          !.images = @ \cup {img},
                          !.commits = Append(@, [kind |-> "layer", parent |-> parent,
                                                  config |-> img.config,
                                                  author |-> w.config.Author,
                                                  comment |-> comment, layer |-> layer,
                                                  result |-> img])]
                 Stored(r) ==
                     IF r.err # "nil" THEN R(r.w, "commit layer")
                     ELSE IF "setparent" \in F THEN R(r.w, "commit layer")
                     ELSE R([r.w EXCEPT !.bundles[w.bundle].image = {ImageID(img)}], "nil")
             IN  Stored(setImage(w2, img, F))

\* the process args for cmd ("" for none): append(entrypoint, cmd)
ProcessArgs(cmd) == <<"/bin/sh", "-c">> \o (IF cmd = "" THEN <<>> ELSE <<cmd>>)

\* the paths of proot a BuildState is made with, "" for none
PRootPaths == {"", "/bin/proot"}

\* the arguments of proot that applyEntrypoint puts before the process args
\* of a bundle with a proot path, the user 0:0 and no ports
BundlePRootArgs == <<"/dev/proot/proot", "--kill-on-exit", "-n", "-0">>

\* the process args of the spec of a new bundle: bb.SetPRootPath(b.proot),
\* bb.SetProcessEntrypoint(entrypoint), bb.SetProcessCmd([]string{cmd}) and
\* the applyEntrypoint of CreateBundle
NewBundleArgs(path, cmd) ==
    (IF path # "" THEN BundlePRootArgs ELSE <<>>) \o ProcessArgs(cmd)

\* the working directory of the process of a bundle made from an image
\* (bundle.BuilderFromImage), of one made from no image (bundle.Builder)
BundleCwd(img) == IF img = {} THEN <<>> ELSE TheImage(img).config.WorkingDir

\* BuildState.initBundle: a new bundle takes its process from the image, a
\* bundle in use gets new process args and keeps the rest of its spec
initBundle(w, cmd, F) ==
    IF w.bundle = 0
    THEN IF "create" \in F THEN R(Log(w, "CreateBundle"), "image builder")
         ELSE LET b == [locked |-> TRUE, closes |-> 0, image |-> w.image,
                        args |-> NewBundleArgs(w.proot, cmd), cwd |-> BundleCwd(w.image)]
              IN  R([Log(w, "CreateBundle") EXCEPT
                        !.bundles = Append(@, b),
                        !.bundle = Len(w.bundles) + 1], "nil")
    ELSE IF cmd # ""
         THEN IF "spec" \in F THEN R(Log(w, "Bundle.Spec"), "bundle spec")
              \* the error of SetSpec is assigned to the err of the inner
              \* block: initBundle returns nil and the spec keeps its args
              ELSE IF "setspec" \in F THEN R(Log(w, "Bundle.SetSpec"), "nil")
              ELSE R([Log(w, "Bundle.SetSpec") EXCEPT
                        !.bundles[w.bundle].args = ProcessArgs(cmd)], "nil")
         ELSE R(w, "nil")

\* the closure BuildState.Run passes to cached
runAction(w, cmd, comment, F) ==
    LET \* deferred container.Close: its error is appended to err
        Closed(r) ==
            IF r.err = "nil" /\ "close" \in F THEN R(r.w, "container close") ELSE r
        Started(w2) == Closed(commitLayer(w2, comment, w2.bundles[w2.bundle].args, F))
        Prepared(w1) ==
            IF "spec" \in F THEN R(Log(w1, "Bundle.Spec"), "bundle spec")
            ELSE IF "container" \in F THEN R(Log(w1, "NewContainer"), "new container")
            ELSE IF "run" \in F
            THEN R(Log(Log(w1, "NewContainer"), "Container.Start"), "container run")
            ELSE Started(Log(Log(w1, "NewContainer"), "Container.Start"))
        Inited(r) == IF r.err # "nil" THEN r ELSE Prepared(r.w)
    IN  Inited(initBundle(w, cmd, F))

\* the deferred function of cached and CopyFile: release the bundle on error
ReleaseBundle(w) ==
    IF w.bundle # 0 THEN [BundleClose(w) EXCEPT !.bundle = 0] ELSE w

\* the op-specific action cached invokes: call(uniqComment)
Call(w, kind, cmd, comment, F) ==
    LET Called(r) == R([r.w EXCEPT !.acts = Append(@, [kind |-> kind, err |-> r.err])], r.err)
    IN  Called(IF kind = "config" THEN commitConfig(Log(w, "commitConfig"), comment, F)
               ELSE runAction(Log(w, "run"), cmd, comment, F))

\* cached that builds although the cache holds a loadable image
CachedBranch_IgnoreHit(got, loads) ==
    IF got = "error" THEN "return" ELSE "build"

\* cached that returns the error of images.Image
CachedBranch_LoadErrorReturned(got, loads) ==
    IF got = "error" THEN "return"
    ELSE IF got = "hit" /\ loads THEN "cached"
    ELSE IF got = "hit" THEN "return"
    ELSE "build"

\* cached that takes every error of cache.Get for "not found"
CachedBranch_AnyErrorIsMiss(got, loads) ==
    IF got = "hit" /\ loads THEN "cached" ELSE "build"

\* what cached does with the outcome of cache.Get and of images.Image:
\* "return" the error, use the "cached" image, or "build"
CachedBranch(got, loads) ==
    IF got = "error" THEN "return"
    ELSE IF got = "hit" /\ loads THEN "cached"
    ELSE "build"

\* cached that reads the parent image id when it writes the entry
PutParent_After(before, after) == after

\* the parent image id of the cache entry cached writes: parentImgId, taken
\* from b.image before the action is called
PutParent(before, after) == before

\* BuildState.cached
cached(w0, uniqComment, kind, cmd, F) ==
    LET w == [w0 EXCEPT !.fp = uniqComment]
        parentImgId == w.image
        got == CacheGet(w.cache, parentImgId, uniqComment, F)
        wg == Log(w, "Cache.Get")
        loads == got = "hit" /\ ImageLoads(wg, CacheValue(w.cache, parentImgId, uniqComment), F)
        branch == CachedBranch(got, loads)
        wi == IF got = "hit" THEN Log(wg, "Images.Image") ELSE wg
        Cached(r) == IF r.err # "nil" THEN R(r.w, "cached image") ELSE r
        Put(wb, put) ==
            IF "put" \in F
            THEN R(ReleaseBundle([Log(wb, "Cache.Put") EXCEPT !.puts = Append(@, put)]),
                   "cache put")
            ELSE R([Log(wb, "Cache.Put") EXCEPT
                      !.puts = Append(@, put),
                      !.cache = CachePut(@, put.parent, put.fp, put.id)], "nil")
        Built(r) ==
            IF r.err # "nil" THEN R(ReleaseBundle(r.w), r.err)
            ELSE Put(r.w, [parent |-> PutParent(parentImgId, r.w.image),
                           fp |-> uniqComment, id |-> ImageID(TheImage(r.w.image)),
                           ok |-> "put" \notin F])
    IN  IF branch = "return"
        THEN R(wi, IF got = "error" THEN "cache get" ELSE "load image")
        ELSE IF branch = "cached"
        THEN Cached(setImage(wi, CacheValue(w.cache, parentImgId, uniqComment), F))
        ELSE Built(Call(wi, kind, cmd, uniqComment, F))

\* BuildState.SetAuthor
SetAuthor(w, author, F) ==
    cached([w EXCEPT !.config.Author = author], FP("AUTHOR", <<author>>), "config", "", F)

\* BuildState.SetWorkingDir
SetWorkingDir(w, dir, F) ==
    LET d == absFile(dir, w.config.WorkingDir)
    IN  cached([w EXCEPT !.config.WorkingDir = d], FP("WORKDIR", d), "config", "", F)

\* BuildState.SetEntrypoint
SetEntrypoint(w, entrypoint, F) ==
    cached([w EXCEPT !.config.Entrypoint = entrypoint],
           FP("ENTRYPOINT", entrypoint), "config", "", F)

\* BuildState.SetCmd
SetCmd(w, cmd, F) ==
    cached([w EXCEPT !.config.Cmd = cmd], FP("CMD", cmd), "config", "", F)

\* FromImage without the check that the state holds no image
FromImageAllowed_Always(w) == TRUE

\* the condition under which FromImage goes on to resolve the image
FromImageAllowed(w) == w.image = {}

\* BuildState.FromImage
FromImage(w, name, F) ==
    IF ~FromImageAllowed(w) THEN R(w, "base image must be defined as first build step")
    ELSE IF name \in DOMAIN w.tags /\ w.tags[name] \in w.images /\ "byname" \notin F
    THEN setImage(Log(w, "ImageByName"), w.tags[name], F)
    ELSE LET w1 == Log(Log(w, "ImageByName"), "ImportImage")
         IN  IF name \notin DOMAIN Registry \/ "import" \in F THEN R(w1, "import image")
             ELSE LET img == Registry[name]
                  IN  setImage([w1 EXCEPT
                                  !.images = @ \cup {img},
                                  !.tags = [n \in DOMAIN @ \cup {name} |->
                                              IF n = name THEN img ELSE @[n]]],
                               img, F)

\* BuildState.Run
Run(w, cmd, F) ==
    IF w.image = {} THEN R(w, "cannot run a command in an empty image")
    ELSE cached(w, FP("RUN /bin/sh -c", <<cmd>>), "run", cmd, F)

\* BuildState.Tag
Tag(w, tag, F) ==
    IF w.image = {} THEN R(w, "no image to tag provided")
    ELSE IF "tag" \in F THEN R(Log(w, "TagImage"), "tag image")
    ELSE R([Log(w, "TagImage") EXCEPT
              !.tags = [n \in DOMAIN @ \cup {tag} |->
                          IF n = tag THEN TheImage(w.image) ELSE @[n]]], "nil")

\* BuildState.CopyFile
CopyFile(w, pattern, F) ==
    LET Copied(r) ==
            IF r.err # "nil" THEN R(ReleaseBundle(r.w), "copy file into image") ELSE r
        Inited(r) ==
            IF r.err # "nil" THEN r
            ELSE IF "add" \in F THEN R(Log(r.w, "fs.Add"), "add files")
            ELSE commitLayer(Log(r.w, "fs.Add"), FP("add file to image", <<>>),
                             <<"COPY", pattern>>, F)
    IN  Copied(Inited(initBundle(w, "", F)))

\* Close that leaves the bundle of the state open
Close_BundleLeftOpen(w) == w

\* BuildState.Close
Close(w) == IF w.bundle # 0 THEN BundleClose(w) ELSE w

(***************************************************************************)
(* ImageBuilder: the step list and Build.                                  *)
(***************************************************************************)
Step(op, arg) == [op |-> op, arg |-> arg]

\* the steps the methods of ImageBuilder add
StepInputs ==
    {Step("FromImage", <<n>>) : n \in ImageNames}
    \cup {Step("SetAuthor", <<a>>) : a \in Authors}
    \cup {Step("SetWorkingDir", d) : d \in Dirs}
    \cup {Step("SetEntrypoint", e) : e \in ArgLists}
    \cup {Step("SetCmd", c) : c \in ArgLists}
    \cup {Step("Run", <<c>>) : c \in RunCmds}
    \cup {Step("Tag", <<t>>) : t \in Tags}

\* the operations a client can call on a BuildState
OpInputs == StepInputs \cup {Step("CopyFile", <<p>>) : p \in Patterns}

\* the collaborator failures an operation can meet
Faults(op) ==
    CASE op = "FromImage" -> {"byname", "import", "config"}
      [] op \in {"SetAuthor", "SetWorkingDir", "SetEntrypoint", "SetCmd"} ->
            {"get", "load", "config", "commit", "put"}
      [] op = "Run" ->
            {"get", "load", "config", "commit", "put", "create", "spec",
             "setspec", "container", "run", "close", "setparent"}
      [] op = "Tag" -> {"tag"}
      [] op = "CopyFile" -> {"create", "add", "commit", "config", "setparent"}

\* a method of BuildState applied to the world
Apply(w, step, F) ==
    CASE step.op = "FromImage" -> FromImage(w, step.arg[1], F)
      [] step.op = "SetAuthor" -> SetAuthor(w, step.arg[1], F)
      [] step.op = "SetWorkingDir" -> SetWorkingDir(w, step.arg, F)
      [] step.op = "SetEntrypoint" -> SetEntrypoint(w, step.arg, F)
      [] step.op = "SetCmd" -> SetCmd(w, step.arg, F)
      [] step.op = "Run" -> Run(w, step.arg[1], F)
      [] step.op = "Tag" -> Tag(w, step.arg[1], F)
      [] step.op = "CopyFile" -> CopyFile(w, step.arg[1], F)

\* the error a step closure of ImageBuilder returns for the error of the
\* method it calls: the closure of SetAuthor returns nil
StepError(step, err) == IF step.op = "SetAuthor" THEN "nil" ELSE err

\* the record kept of an operation
Snapshot(w) ==
    [image |-> w.image, config |-> w.config, bundle |-> w.bundle,
     images |-> w.images, tags |-> w.tags, cache |-> w.cache, bundles |-> w.bundles]

Record(w, step, F, r) ==
    [op |-> step.op, arg |-> step.arg, faults |-> F, err |-> r.err,
     fp |-> r.w.fp, calls |-> r.w.calls, acts |-> r.w.acts, puts |-> r.w.puts,
     commits |-> r.w.commits, pre |-> Snapshot(w), post |-> Snapshot(r.w)]

NoSnapshot ==
    [image |-> {}, config |-> EmptyConfig, bundle |-> 0,
     images |-> {}, tags |-> <<>>, cache |-> <<>>, bundles |-> <<>>]

NoRecord ==
    [op |-> "", arg |-> <<>>, faults |-> {}, err |-> "nil",
     fp |-> NoFP, calls |-> <<>>, acts |-> <<>>, puts |-> <<>>, commits |-> <<>>,
     pre |-> NoSnapshot, post |-> NoSnapshot]

BuildResult(err, img, faults) == [err |-> err, image |-> img, faults |-> faults]

\* a Go slice of strings: its elements, the capacity of its backing array and
\* the id of that array (0: an array no other slice is appended to)
Slice(v, cap, arr) == [v |-> v, cap |-> cap, arr |-> arr]

\* the shell of RUN in shell form: sh := []string{"/bin/sh", "-c"}
DefaultShell == Slice(<<"/bin/sh", "-c">>, 2, 0)

\* idutils.User: the user and the group as given, names or numbers
User(u, g) == [User |-> u, Group |-> g]

\* no profile: Linux.Seccomp = nil
NoSeccomp == [nil |-> TRUE]

\* the capabilities of the process of generate.New()
DefaultCaps == {"CAP_CHOWN", "CAP_KILL"}

\* the spec of generate.New(), as far as the SpecBuilder changes it; the
\* exposedPorts annotation is a string of bytes, empty when there is none
GenerateNew ==
    [args |-> <<"sh">>, uid |-> 0, gid |-> 0, cwd |-> "/",
     env |-> {}, caps |-> DefaultCaps, mounts |-> {},
     uidMappings |-> <<>>, gidMappings |-> <<>>, seccomp |-> NoSeccomp,
     annotations |-> <<>>, exposedPorts |-> <<>>]

\* NewSpecBuilder: SpecBuilder{Generator: generate.New()}; a nil slice or
\* pointer is the empty set, one that is set is the set of its value
NewSpecBuilder ==
    [entrypoint |-> {}, cmd |-> {}, user |-> User("", ""),
     customSeccomp |-> FALSE, proot |-> {}, rootless |-> FALSE]

\* the directory of the test, its rootfs and the file of the host next to it
TestDir == <<"dir">>
Rootfs == <<"dir", "rootfs">>
HostFile == <<"dir", "file">>

\* what a path of the file system holds
DirNode == [type |-> "dir"]
RegNode(content) == [type |-> "reg", content |-> content]
SymlinkNode(target) == [type |-> "symlink", target |-> target]

\* the file system after ioutil.TempDir, os.Mkdir(rootfs) and the host file
\* written by testUnpackEntrySanitiseHelper
TestFS ==
    [p \in {<<>>, TestDir, Rootfs, HostFile} |->
        IF p = HostFile THEN RegNode("host content") ELSE DirNode]

Init ==
    /\ tfs = TestFS
    /\ unpacked = <<>>
    /\ te = 0
    /\ sb = NewSpecBuilder
    /\ gspec = GenerateNew
    /\ rets = <<>>
    /\ sbghost = [called |-> {}, ports |-> {}, seccomp |-> "", given |-> {}]
    /\ steps = <<>>
    /\ phase = "idle"
    /\ idx = 0
    /\ buildErr = "nil"
    /\ results = <<>>
    /\ nbuilds = 0
    /\ nsessions = 0
    /\ nops = 0
    /\ ngc = 0
    /\ nfaults = 0
    /\ image = {}
    /\ config = EmptyConfig
    /\ bundle = 0
    /\ proot = ""
    /\ images = {}
    /\ tags = <<>>
    /\ cache = <<>>
    /\ bundles = <<>>
    /\ last = NoRecord
    /\ ran = <<>>
    /\ dfPhase = "none"
    /\ buildArgs = <<>>
    /\ ops = <<>>
    /\ envMap = {}
    /\ runEnvMap = <<>>
    /\ varScope = <<>>
    /\ imageCount = 0
    /\ shell = DefaultShell
    /\ warned = <<>>
    /\ nodes = <<>>
    /\ loadErr = "nil"
    /\ applyIdx = 0
    /\ applyErr = "nil"
    /\ bcalls = <<>>
    /\ pc = [t \in Threads |-> "idle"]
    /\ mutex = [p \in Procs |-> 0]
    /\ lockfile = 0
    /\ watching = {}
    /\ events = {}
    /\ ret = [t \in Threads |-> [op |-> "", err |-> "nil"]]
    /\ ncalls = 0
    /\ lkfaults = 0

\* the world after an operation becomes the state
Commit(w) ==
    /\ image' = w.image
    /\ config' = w.config
    /\ bundle' = w.bundle
    /\ images' = w.images
    /\ tags' = w.tags
    /\ cache' = w.cache
    /\ bundles' = w.bundles

\* ImageBuilder.FromImage, SetAuthor, ..., Tag: addBuildStep
AddStep ==
    /\ phase = "idle"
    /\ nbuilds = 0
    /\ Len(steps) < MaxSteps
    /\ \E s \in StepInputs : steps' = Append(steps, s)
    /\ UNCHANGED <<phase, idx, buildErr, results, nbuilds, nsessions, nops, ngc, nfaults,
                   image, config, bundle, images, tags, cache, bundles, last, ran>>
    /\ UNCHANGED proot
    /\ UNCHANGED <<dfvars, lkvars, sbvars, tvars>>

\* ImageBuilder.Build up to its loop: a new BuildState with the creation time
\* set; without steps it returns an error right away
Build ==
    /\ phase = "idle"
    /\ nbuilds < MaxBuilds
    /\ nbuilds' = nbuilds + 1
    /\ image' = NewBuildState.image
    /\ config' = [NewBuildState.config EXCEPT !.Created = nbuilds + 1]
    /\ bundle' = NewBuildState.bundle
    /\ idx' = 1
    /\ buildErr' = "nil"
    /\ last' = NoRecord
    /\ ran' = <<>>
    /\ IF Len(steps) = 0
       THEN /\ results' = Append(results, BuildResult("no build steps defined", {}, 0))
            /\ phase' = "idle"
       ELSE /\ results' = results
            /\ phase' = "build"
    /\ UNCHANGED <<steps, nsessions, nops, ngc, nfaults, images, tags, cache, bundles>>
    /\ \E path \in PRootPaths : proot' = path
    /\ UNCHANGED <<dfvars, lkvars, sbvars, tvars>>

\* Build's loop goes on to the next step while err is nil
LoopGoesOn_Always(err) == TRUE

LoopGoesOn(err) == err = "nil"

\* one iteration of Build's loop: err = step(&state)
BuildStep ==
    /\ phase = "build"
    /\ LoopGoesOn(buildErr)
    /\ idx <= Len(steps)
    /\ \E F \in FaultSets(Faults(steps[idx].op), nfaults) :
          LET Stepped(r) ==
                  /\ Commit(r.w)
                  /\ last' = Record(World, steps[idx], F, r)
                  /\ buildErr' = StepError(steps[idx], r.err)
                  /\ ran' = Append(ran, [step |-> idx, err |-> StepError(steps[idx], r.err),
                                          opErr |-> r.err])
                  /\ nfaults' = nfaults + Cardinality(F)
          IN  Stepped(Apply(World, steps[idx], F))
    /\ idx' = idx + 1
    /\ UNCHANGED <<steps, phase, results, nbuilds, nsessions, nops, ngc>>
    /\ UNCHANGED proot
    /\ UNCHANGED <<dfvars, lkvars, sbvars, tvars>>

\* Build returns: after the loop or at the first error, with the deferred
\* state.Close(); dereferencing a nil state.image panics
BuildReturn ==
    /\ phase = "build"
    /\ ~LoopGoesOn(buildErr) \/ idx > Len(steps)
    /\ Commit(Close(World))
    /\ results' = Append(results,
                    IF buildErr # "nil" THEN BuildResult(buildErr, {}, nfaults)
                    ELSE IF image = {} THEN BuildResult("panic", {}, nfaults)
                    ELSE BuildResult("nil", image, nfaults))
    /\ phase' = "idle"
    /\ UNCHANGED <<steps, idx, buildErr, nbuilds, nsessions, nops, ngc, nfaults, last, ran>>
    /\ UNCHANGED proot
    /\ UNCHANGED <<dfvars, lkvars, sbvars, tvars>>

\* a client creates a BuildState of its own
ClientNewBuildState ==
    /\ phase = "idle"
    /\ nsessions < MaxSessions
    /\ nsessions' = nsessions + 1
    /\ phase' = "direct"
    /\ image' = NewBuildState.image
    /\ config' = NewBuildState.config
    /\ bundle' = NewBuildState.bundle
    /\ last' = NoRecord
    /\ UNCHANGED <<steps, idx, buildErr, results, nbuilds, nops, ngc, nfaults, images, tags,
                   cache, bundles, ran>>
    /\ \E path \in PRootPaths : proot' = path
    /\ UNCHANGED <<dfvars, lkvars, sbvars, tvars>>

\* the client calls a method of its BuildState
ClientCall ==
    /\ phase = "direct"
    /\ nops < MaxOps
    /\ nops' = nops + 1
    /\ \E s \in OpInputs : \E F \in FaultSets(Faults(s.op), nfaults) :
          LET Returned(r) ==
                  /\ Commit(r.w)
                  /\ last' = Record(World, s, F, r)
                  /\ nfaults' = nfaults + Cardinality(F)
          IN  Returned(Apply(World, s, F))
    /\ UNCHANGED <<steps, phase, idx, buildErr, results, nbuilds, nsessions, ngc, ran>>
    /\ UNCHANGED proot
    /\ UNCHANGED <<dfvars, lkvars, sbvars, tvars>>

\* the client calls BuildState.Close and drops the state
ClientClose ==
    /\ phase = "direct"
    /\ Commit(Close(World))
    /\ phase' = "idle"
    /\ UNCHANGED <<steps, idx, buildErr, results, nbuilds, nsessions, nops, ngc, nfaults, last,
                   ran>>
    /\ UNCHANGED proot
    /\ UNCHANGED <<dfvars, lkvars, sbvars, tvars>>

\* garbage collection removes an image from the store while no build runs
\* (only collections that a later build can observe)
GC ==
    /\ phase = "idle"
    /\ ngc < MaxGC
    /\ nbuilds > 0 /\ nbuilds < MaxBuilds
    /\ \E i \in images : images' = images \ {i}
    /\ ngc' = ngc + 1
    /\ UNCHANGED <<steps, phase, idx, buildErr, results, nbuilds, nsessions, nops, nfaults,
                   image, config, bundle, tags, cache, bundles, last, ran>>
    /\ UNCHANGED proot
    /\ UNCHANGED <<dfvars, lkvars, sbvars, tvars>>

\* builds of an ImageBuilder
Next ==
    \/ AddStep
    \/ Build
    \/ BuildStep
    \/ BuildReturn
    \/ GC

Spec == Init /\ [][Next]_vars

\* a client driving BuildStates of its own
NextClient ==
    \/ ClientNewBuildState
    \/ ClientCall
    \/ ClientClose

SpecClient == Init /\ [][NextClient]_vars

(***************************************************************************)
(* DockerfileBuilder (image/builder/dockerfile/dockerfile.go): the         *)
(* instructions LoadDockerfile reads, the operations they add, and Apply.  *)
(***************************************************************************)
\* a word of an instruction: literal text, or a reference $ref to a variable
Word(lit, ref) == [lit |-> lit, ref |-> ref]
Lit(s) == Word(s, "")
Var(k) == Word("", k)
\* a word the lexer cannot process
BadWord == Lit("${")

\* the text of a word as the parser hands it over (node.Value)
Raw(w) == IF w.ref # "" THEN "$" \o w.ref ELSE w.lit

\* an instruction: parser.Node
Node(instr, args, json) == [instr |-> instr, args |-> args, json |-> json]

\* the instructions a Dockerfile is made of
NodeInputs ==
    {Node("from", <<Lit("alpine")>>, FALSE),
     Node("from", <<Lit("alpine"), Lit("as"), Lit("base")>>, FALSE),
     Node("from", <<Var("X")>>, FALSE),
     Node("from", <<Lit("alpine"), Lit("base")>>, FALSE),
     Node("env", <<Lit("X"), Lit("e1")>>, FALSE),
     Node("env", <<Lit("Y"), Var("X")>>, FALSE),
     Node("env", <<Lit("X"), Lit("\"q1\"")>>, FALSE),
     Node("arg", <<Lit("X")>>, FALSE),
     Node("arg", <<Lit("X"), Lit("d1")>>, FALSE),
     Node("run", <<Lit("c1")>>, FALSE),
     Node("run", <<Lit("c1")>>, TRUE),
     Node("run", <<>>, FALSE),
     Node("workdir", <<Var("X")>>, FALSE),
     Node("workdir", <<BadWord>>, FALSE),
     Node("healthcheck", <<Lit("c1")>>, FALSE)}

\* the build args LoadDockerfile is given
BuildArgInputs == {<<>>, [k \in {"X"} |-> "o1"], [k \in {"X"} |-> ""]}

\* m[k] = v on a Go map
MapPut(m, k, v) == [x \in DOMAIN m \cup {k} |-> IF x = k THEN v ELSE m[x]]

\* strings.Join(l, " ")
RECURSIVE Join(_)
Join(l) ==
    IF Len(l) = 0 THEN ""
    ELSE IF Len(l) = 1 THEN l[1]
    ELSE l[1] \o " " \o Join(Tail(l))

\* lex.ProcessWord(e, env): the word with its variable replaced by the value
\* of the scope, by nothing when the scope has none
ProcessWord(w, scope) ==
    IF w.ref = "" THEN w.lit
    ELSE IF w.ref \in DOMAIN scope THEN scope[w.ref]
    ELSE ""

\* DockerfileBuilder.subst
subst(v, scope) ==
    IF \E i \in 1..Len(v) : v[i] = BadWord THEN [v |-> <<>>, err |-> "subst"]
    ELSE [v |-> [i \in 1..Len(v) |-> ProcessWord(v[i], scope)], err |-> "nil"]

\* readInstructionNode
readInstructionNode(node) ==
    IF Len(node.args) = 0 THEN [r |-> <<>>, err |-> "incomplete instruction"]
    ELSE [r |-> [i \in 1..Len(node.args) |-> Raw(node.args[i])], err |-> "nil"]

\* DockerfileBuilder.readInstructionNodeCmd
\* shell form: r = append(s.shell, strings.Join(r, " ")), which writes into
\* the array of s.shell when it has room (arr says which array was written)
readInstructionNodeCmd(node) ==
    LET Read(l) ==
            IF l.err = "nil" /\ ~node.json
            THEN [r |-> Append(shell.v, Join(l.r)), err |-> "nil",
                  arr |-> IF Len(shell.v) < shell.cap THEN shell.arr ELSE 0]
            ELSE [r |-> l.r, err |-> l.err, arr |-> 0]
    IN  Read(readInstructionNode(node))

\* strconv.Unquote, or the word itself when it is not quoted
unquote(v) == IF v = "\"q1\"" THEN "q1" ELSE v

\* DockerfileBuilder.toMap
RECURSIVE toMap(_)
toMap(v) ==
    IF Len(v) < 2 THEN <<>>
    ELSE LET rest == toMap(SubSeq(v, 1, Len(v) - 2 - (Len(v) % 2)))
         IN  MapPut(rest, unquote(v[Len(v) - 1 - (Len(v) % 2)]), unquote(v[Len(v) - (Len(v) % 2)]))

\* an operation added to DockerfileBuilder.ops: the builder call the closure
\* makes with the values it has captured, and the instruction that added it
Op(call, args, env) ==
    [call |-> call, args |-> args, env |-> env, line |-> Len(nodes) + 1, arr |-> 0]

\* an operation whose argument list lives in array arr
OpOn(call, args, env, arr) == [Op(call, args, env) EXCEPT !.arr = arr]

\* the operations after append has written element e at position i of array
\* arr: the lists that live in this array show the new element
Overwritten(arr, i, e) ==
    [h \in 1..Len(ops) |->
        IF arr # 0 /\ ops[h].arr = arr /\ Len(ops[h].args) >= i
        THEN [ops[h] EXCEPT !.args[i] = e]
        ELSE ops[h]]

\* what readNode records of an instruction: the node, whether it was accepted
\* and the variable scope it was read in
NodeRead(n, err) == [node |-> n, err |-> err, scope |-> varScope]

\* LoadDockerfile up to its loop
LoadDockerfile ==
    /\ dfPhase = "none"
    /\ dfPhase' = "load"
    /\ \E a \in BuildArgInputs : buildArgs' = a
    /\ shell' = DefaultShell
    /\ UNCHANGED <<ops, envMap, runEnvMap, varScope, imageCount, warned, nodes, loadErr,
                   applyIdx, applyErr, bcalls>>
    /\ UNCHANGED <<bvars, lkvars, sbvars, tvars>>

\* errors.Wrapf(err, "line %d: %s", node.StartLine, instr); the instructions
\* stand one on each line
Wrapf(err, line, instr) == "line " \o ToString(line) \o ": " \o instr \o ": " \o err

\* the loop of LoadDockerfile that goes on after an error of readNode
AfterReadNode_GoesOn(err) == "load"

\* the loop of LoadDockerfile after readNode: it returns the error at once
AfterReadNode(err) == IF err # "nil" THEN "failed" ELSE "load"

\* readNode returns an error: LoadDockerfile returns it
ReadFailed(n, err) ==
    /\ dfPhase' = AfterReadNode(err)
    /\ loadErr' = Wrapf(err, Len(nodes) + 1, n.instr)
    /\ nodes' = Append(nodes, NodeRead(n, err))
    /\ UNCHANGED shell
    /\ UNCHANGED <<buildArgs, ops, envMap, runEnvMap, varScope, imageCount, warned,
                   applyIdx, applyErr, bcalls>>
    /\ UNCHANGED <<bvars, lkvars, sbvars, tvars>>

\* readNode returns nil: the loop of LoadDockerfile goes on
ReadDoneAll(n, allOps, em, rm, vs, w, sh) ==
    /\ nodes' = Append(nodes, NodeRead(n, "nil"))
    /\ ops' = allOps
    /\ envMap' = em
    /\ runEnvMap' = rm
    /\ varScope' = vs
    /\ warned' = w
    /\ shell' = sh
    /\ UNCHANGED <<dfPhase, buildArgs, imageCount, loadErr, applyIdx, applyErr, bcalls>>
    /\ UNCHANGED <<bvars, lkvars, sbvars, tvars>>

\* readNode returns nil after its handler has added newOps
ReadDone(n, newOps, em, rm, vs, w) == ReadDoneAll(n, ops \o newOps, em, rm, vs, w, shell)

\* resetState that keeps the variables of the stage before
resetState_KeepScope == [envMap |-> envMap, runEnvMap |-> runEnvMap, varScope |-> varScope]

\* DockerfileBuilder.resetState
resetState == [envMap |-> {}, runEnvMap |-> <<>>, varScope |-> <<>>]

\* the check of the arguments of FROM: image [as name]
FromArgsOK(v) ==
    /\ Len(v) = 1 \/ Len(v) = 3
    /\ v[1] # ""
    /\ Len(v) = 3 => v[2] = "as"

\* DockerfileBuilder.from
from(n) ==
    LET l == readInstructionNode(n)
        s == subst(n.args, varScope)
    IN  IF l.err # "nil" THEN ReadFailed(n, l.err)
        ELSE IF s.err # "nil" THEN ReadFailed(n, s.err)
        ELSE IF ~FromArgsOK(s.v) THEN ReadFailed(n, "from: expected 'image [as name]'")
        ELSE ReadDone(n, <<Op("FromImage", s.v, <<>>)>>,
                      resetState.envMap, resetState.runEnvMap, resetState.varScope,
                      warned)

\* readNode, case "from"
ReadFrom ==
    /\ dfPhase = "load"
    /\ Len(nodes) < MaxInstr
    /\ \E n \in NodeInputs : n.instr = "from" /\ from(n)

\* the value of ARG: the words after the name
ArgDefault(l) == IF Len(l) >= 2 THEN Join(Tail(l)) ELSE ""

\* the value of ARG k: the build arg given for k, else the declared value
ArgValue(k, v) == IF k \in DOMAIN buildArgs THEN buildArgs[k] ELSE v

\* the operations arg adds for ARG k with value v
ArgOps_AddEnv(k, v) == <<Op("AddEnv", <<>>, MapPut(<<>>, k, v))>>

\* the operations arg adds: none, arg never calls s.add
ArgOps(k, v) == <<>>

\* DockerfileBuilder.arg
argInstr(n) ==
    LET l == readInstructionNode(n)
        k == l.r[1]
        v == ArgValue(k, ArgDefault(l.r))
        w1 == IF k \notin DOMAIN buildArgs /\ ArgDefault(l.r) = ""
              THEN Append(warned, [msg |-> "undefined build arg", key |-> k])
              ELSE warned
    IN  IF l.err # "nil" THEN ReadFailed(n, l.err)
        ELSE IF k \in envMap
        THEN ReadDone(n, ArgOps(k, v), envMap, runEnvMap, varScope,
                      Append(w1, [msg |-> "arg is shadowed by env var", key |-> k]))
        ELSE IF v # ""
        THEN ReadDone(n, ArgOps(k, v), envMap, MapPut(runEnvMap, k, v), MapPut(varScope, k, v), w1)
        ELSE ReadDone(n, ArgOps(k, v), envMap, runEnvMap, varScope, w1)

\* readNode, case "arg"
ReadArg ==
    /\ dfPhase = "load"
    /\ Len(nodes) < MaxInstr
    /\ \E n \in NodeInputs : n.instr = "arg" /\ argInstr(n)

\* the variables ENV declares: every key of m, with its value
EnvScope(vs, m) == [k \in DOMAIN vs \cup DOMAIN m |-> IF k \in DOMAIN m THEN m[k] ELSE vs[k]]

\* DockerfileBuilder.env
envInstr(n) ==
    LET l == readInstructionNode(n)
        s == subst(n.args, varScope)
        m == toMap(s.v)
    IN  IF l.err # "nil" THEN ReadFailed(n, l.err)
        ELSE IF s.err # "nil" THEN ReadFailed(n, s.err)
        ELSE ReadDone(n, <<Op("AddEnv", <<>>, m)>>,
                      envMap \cup DOMAIN m, runEnvMap, EnvScope(varScope, m), warned)

\* readNode, case "env"
ReadEnv ==
    /\ dfPhase = "load"
    /\ Len(nodes) < MaxInstr
    /\ \E n \in NodeInputs : n.instr = "env" /\ envInstr(n)

\* DockerfileBuilder.run
run(n) ==
    LET v == readInstructionNodeCmd(n)
    IN  IF v.err # "nil" THEN ReadFailed(n, v.err)
        ELSE ReadDoneAll(n, Append(Overwritten(v.arr, Len(v.r), v.r[Len(v.r)]),
                                   OpOn("Run", v.r, runEnvMap, v.arr)),
                         envMap, runEnvMap, varScope, warned, shell)

\* readNode, case "run"
ReadRun ==
    /\ dfPhase = "load"
    /\ Len(nodes) < MaxInstr
    /\ \E n \in NodeInputs : n.instr = "run" /\ run(n)

\* DockerfileBuilder.workdir
workdir(n) ==
    LET l == readInstructionNode(n)
        s == subst(n.args, varScope)
    IN  IF l.err # "nil" THEN ReadFailed(n, l.err)
        ELSE IF Len(l.r) # 1 THEN ReadFailed(n, "invalid argument count")
        ELSE IF s.err # "nil" THEN ReadFailed(n, s.err)
        ELSE ReadDone(n, <<Op("SetWorkingDir", s.v, <<>>)>>,
                      envMap, runEnvMap, varScope, warned)

\* readNode, case "workdir"
ReadWorkdir ==
    /\ dfPhase = "load"
    /\ Len(nodes) < MaxInstr
    /\ \E n \in NodeInputs : n.instr = "workdir" /\ workdir(n)

\* the instructions readNode dispatches to a handler
Supported ==
    {"from", "copy", "add", "label", "maintainer", "arg", "env", "workdir", "user", "shell",
     "run", "expose", "volume", "entrypoint", "cmd", "stopsignal"}

\* errors.Errorf("unsupported instruction %q", instr)
Unsupported(instr) == "unsupported instruction \"" \o instr \o "\""

\* readNode, default case
ReadUnsupported ==
    /\ dfPhase = "load"
    /\ Len(nodes) < MaxInstr
    /\ \E n \in NodeInputs :
          /\ n.instr \notin Supported
          /\ ReadFailed(n, Unsupported(n.instr))

(***************************************************************************)
(* The other instructions of readNode, read from a second set of inputs.   *)
(***************************************************************************)
\* the flags of an instruction: the words given with --chown and --from, and
\* whether another flag is given
Flags(chown, from_, other) == [chown |-> chown, from |-> from_, other |-> other]
NoFlags == Flags(Lit(""), Lit(""), FALSE)

\* an instruction with flags
NodeF(instr, args, flags) == [instr |-> instr, args |-> args, json |-> FALSE, flags |-> flags]

\* the instructions of the second set
InstrInputs ==
    {Node("arg", <<Lit("X"), Lit("d1")>>, FALSE),
     Node("env", <<Lit("X"), Lit("e1")>>, FALSE),
     Node("env", <<Var("X"), Lit("e1")>>, FALSE),
     Node("env", <<Lit("X"), Lit("e2"), Lit("Y"), Var("X")>>, FALSE),
     Node("run", <<Lit("echo"), Var("X")>>, FALSE),
     Node("run", <<Var("X")>>, TRUE),
     Node("cmd", <<Lit("start"), Var("X")>>, FALSE),
     Node("entrypoint", <<Var("X")>>, TRUE),
     Node("shell", <<Lit("sh"), Lit("-e"), Lit("-c")>>, TRUE),
     Node("shell", <<Lit("bash"), Lit("-c")>>, TRUE),
     Node("user", <<Var("X")>>, FALSE),
     Node("expose", <<Var("X"), Lit("80")>>, FALSE),
     Node("volume", <<Var("X")>>, FALSE),
     Node("stopsignal", <<Var("X")>>, FALSE),
     Node("label", <<Lit("k"), Var("X")>>, FALSE),
     Node("label", <<Lit("maintainer"), Lit("m1"), Lit("k"), Var("X")>>, FALSE),
     Node("maintainer", <<Var("X")>>, FALSE),
     NodeF("copy", <<Var("X"), Lit("/dest")>>, Flags(Var("X"), Var("X"), FALSE)),
     NodeF("add", <<Var("X"), Lit("/dest")>>, Flags(Var("X"), Lit(""), FALSE)),
     NodeF("add", <<Lit("f")>>, Flags(Lit(""), Lit("base"), FALSE)),
     Node("from", <<Var("X")>>, FALSE),
     Node("workdir", <<Var("X")>>, FALSE),
     Node("healthcheck", <<Lit("c1")>>, FALSE),
     Node("onbuild", <<Lit("run"), Lit("c1")>>, FALSE)}

\* readFlags(n, &chown, &from)
readFlags(n) ==
    LET f == IF "flags" \in DOMAIN n THEN n.flags ELSE NoFlags
    IN  IF f.other THEN [chown |-> Lit(""), from |-> Lit(""), err |-> "unsupported flag"]
        ELSE [chown |-> f.chown, from |-> f.from, err |-> "nil"]

\* DockerfileBuilder.copy, for COPY (op = "opCopy") and ADD (op = "opAdd")
copy(n, op) ==
    LET l == readInstructionNode(n)
        f == readFlags(n)
        sf == subst(<<f.chown, f.from>>, varScope)
        s == subst(n.args, varScope)
    IN  IF l.err # "nil" THEN ReadFailed(n, l.err)
        ELSE IF f.err # "nil" THEN ReadFailed(n, f.err)
        ELSE IF sf.err # "nil" THEN ReadFailed(n, sf.err)
        ELSE IF s.err # "nil" THEN ReadFailed(n, s.err)
        ELSE ReadDone(n, <<Op(op,
                              IF Len(s.v) > 1
                              THEN <<SubSeq(s.v, 1, Len(s.v) - 1), s.v[Len(s.v)]>>
                              ELSE <<s.v, "">>,
                              [chown |-> sf.v[1], from |-> sf.v[2]])>>,
                      envMap, runEnvMap, varScope, warned)

\* DockerfileBuilder.label
label(n) ==
    LET l == readInstructionNode(n)
        s == subst(n.args, varScope)
    IN  IF l.err # "nil" THEN ReadFailed(n, l.err)
        ELSE IF s.err # "nil" THEN ReadFailed(n, s.err)
        ELSE ReadDone(n, <<Op("label", <<>>, toMap(s.v))>>,
                      envMap, runEnvMap, varScope, warned)

\* DockerfileBuilder.maintainer
maintainer(n) ==
    LET l == readInstructionNode(n)
    IN  IF l.err # "nil" THEN ReadFailed(n, l.err)
        ELSE ReadDone(n, <<Op("SetAuthor", <<Join(l.r)>>, <<>>)>>,
                      envMap, runEnvMap, varScope, warned)

\* the capacity of the array of a list that append has filled one element
\* at a time from the empty list []string{}
CapOf(len) == IF len <= 2 THEN len ELSE IF len <= 4 THEN 4 ELSE 8

\* DockerfileBuilder.useShell: s.shell = v, the list readInstructionNode made
useShell(n) ==
    LET l == readInstructionNode(n)
    IN  IF l.err # "nil" THEN ReadFailed(n, l.err)
        ELSE ReadDoneAll(n, ops, envMap, runEnvMap, varScope, warned,
                         Slice(l.r, CapOf(Len(l.r)), Len(nodes) + 1))

\* user, stopsignal: one argument, substituted, handed to the builder
OneArg(n, call) ==
    LET l == readInstructionNode(n)
        s == subst(n.args, varScope)
    IN  IF l.err # "nil" THEN ReadFailed(n, l.err)
        ELSE IF Len(l.r) # 1 THEN ReadFailed(n, "invalid argument count")
        ELSE IF s.err # "nil" THEN ReadFailed(n, s.err)
        ELSE ReadDone(n, <<Op(call, s.v, <<>>)>>, envMap, runEnvMap, varScope, warned)

\* DockerfileBuilder.user
user(n) == OneArg(n, "SetUser")

\* DockerfileBuilder.stopsignal
stopsignal(n) == OneArg(n, "SetStopSignal")

\* exposePorts, volume: all arguments, substituted, handed to the builder
AllArgs(n, call) ==
    LET l == readInstructionNode(n)
        s == subst(n.args, varScope)
    IN  IF l.err # "nil" THEN ReadFailed(n, l.err)
        ELSE IF s.err # "nil" THEN ReadFailed(n, s.err)
        ELSE ReadDone(n, <<Op(call, s.v, <<>>)>>, envMap, runEnvMap, varScope, warned)

\* DockerfileBuilder.exposePorts
exposePorts(n) == AllArgs(n, "AddExposedPorts")

\* DockerfileBuilder.volume
volume(n) == AllArgs(n, "AddVolumes")

\* entrypoint, cmd: the list of readInstructionNodeCmd handed to the builder
CmdArgs(n, call) ==
    LET v == readInstructionNodeCmd(n)
    IN  IF v.err # "nil" THEN ReadFailed(n, v.err)
        ELSE ReadDoneAll(n, Append(Overwritten(v.arr, Len(v.r), v.r[Len(v.r)]),
                                   OpOn(call, v.r, <<>>, v.arr)),
                         envMap, runEnvMap, varScope, warned, shell)

\* DockerfileBuilder.entrypoint
entrypointInstr(n) == CmdArgs(n, "SetEntrypoint")

\* DockerfileBuilder.cmd
cmdInstr(n) == CmdArgs(n, "SetCmd")

\* DockerfileBuilder.readNode: the switch over the instruction
readNode(n) ==
    CASE n.instr = "from" -> from(n)
      [] n.instr = "copy" -> copy(n, "opCopy")
      [] n.instr = "add" -> copy(n, "opAdd")
      [] n.instr = "label" -> label(n)
      [] n.instr = "maintainer" -> maintainer(n)
      [] n.instr = "arg" -> argInstr(n)
      [] n.instr = "env" -> envInstr(n)
      [] n.instr = "workdir" -> workdir(n)
      [] n.instr = "user" -> user(n)
      [] n.instr = "shell" -> useShell(n)
      [] n.instr = "run" -> run(n)
      [] n.instr = "expose" -> exposePorts(n)
      [] n.instr = "volume" -> volume(n)
      [] n.instr = "entrypoint" -> entrypointInstr(n)
      [] n.instr = "cmd" -> cmdInstr(n)
      [] n.instr = "stopsignal" -> stopsignal(n)
      [] OTHER -> ReadFailed(n, Unsupported(n.instr))

\* one iteration of the loop of LoadDockerfile over an instruction of the
\* second set
ReadNode ==
    /\ dfPhase = "load"
    /\ Len(nodes) < MaxRead
    /\ \E n \in InstrInputs : readNode(n)

\* LoadDockerfile returns the builder after the last instruction
LoadReturn ==
    /\ dfPhase = "load"
    /\ dfPhase' = "loaded"
    /\ UNCHANGED <<buildArgs, ops, envMap, runEnvMap, varScope, imageCount, warned, nodes,
                   loadErr, applyIdx, applyErr, bcalls>>
    /\ UNCHANGED shell
    /\ UNCHANGED <<bvars, lkvars, sbvars, tvars>>

\* a call Apply made on the ImageBuilder, and the error it returned
BCall(call, args, env, err) == [call |-> call, args |-> args, env |-> env, err |-> err]

\* DockerfileBuilder.Apply up to its loop
ApplyStart ==
    /\ dfPhase = "loaded"
    /\ dfPhase' = "apply"
    /\ applyIdx' = 1
    /\ applyErr' = "nil"
    /\ bcalls' = <<>>
    /\ UNCHANGED <<buildArgs, ops, envMap, runEnvMap, varScope, imageCount, warned, nodes,
                   loadErr>>
    /\ UNCHANGED shell
    /\ UNCHANGED <<bvars, lkvars, sbvars, tvars>>

\* the closure from adds: FromImage, then the names of the stage
FromOpCalls(op, err) ==
    IF err # "nil" THEN <<BCall("FromImage", <<op.args[1]>>, <<>>, err)>>
    ELSE <<BCall("FromImage", <<op.args[1]>>, <<>>, "nil"),
           BCall("BuildName", <<ToString(imageCount)>>, <<>>, "nil")>>
         \o (IF Len(op.args) = 3 THEN <<BCall("BuildName", <<op.args[3]>>, <<>>, "nil")>>
             ELSE <<>>)

\* the closure label adds: SetAuthor for the key maintainer, AddLabels for
\* the other keys
LabelCalls(op, err) ==
    LET rest == [k \in DOMAIN op.env \ {"maintainer"} |-> op.env[k]]
    IN  IF "maintainer" \in DOMAIN op.env
        THEN <<BCall("SetAuthor", <<op.env["maintainer"]>>, <<>>, err)>>
             \o (IF err = "nil" /\ DOMAIN rest # {}
                 THEN <<BCall("AddLabels", <<>>, rest, "nil")>> ELSE <<>>)
        ELSE IF DOMAIN rest # {} THEN <<BCall("AddLabels", <<>>, rest, err)>>
        ELSE <<>>

\* opAdd refuses --from
AddRefused(op) == op.call = "opAdd" /\ op.env.from # ""

\* the calls the closure of an operation makes on the builder, the first
\* of them returning err
OpCallsOf(op, err) ==
    IF op.call = "FromImage" THEN FromOpCalls(op, err)
    ELSE IF op.call = "label" THEN LabelCalls(op, err)
    ELSE IF op.call = "opAdd"
    THEN IF AddRefused(op) THEN <<>> ELSE <<BCall("AddFiles", op.args, op.env, err)>>
    ELSE IF op.call = "opCopy"
    THEN <<BCall(IF op.env.from = "" THEN "CopyFiles" ELSE "CopyFilesFromImage",
                 op.args, op.env, err)>>
    ELSE <<BCall(op.call, op.args, op.env, err)>>

\* what the closure of an operation returns
OpErrOf(op, err) ==
    IF AddRefused(op) THEN "ADD command does not support --from option"
    ELSE IF OpCallsOf(op, err) = <<>> THEN "nil"
    ELSE err

\* the operations after the closure of operation i has run, its first call
\* returning err: the closure label adds deletes the key maintainer from the
\* map it has captured once SetAuthor has succeeded
OpsApplied(i, err) ==
    IF ops[i].call = "label" /\ err = "nil" /\ "maintainer" \in DOMAIN ops[i].env
    THEN [ops EXCEPT ![i].env = [k \in DOMAIN ops[i].env \ {"maintainer"} |-> ops[i].env[k]]]
    ELSE ops

\* Apply's loop goes on to the next operation while err is nil
ApplyGoesOn(err) == err = "nil"

\* one iteration of Apply's loop: err = op(b); the builder may fail
ApplyOp ==
    /\ dfPhase = "apply"
    /\ ApplyGoesOn(applyErr)
    /\ applyIdx <= Len(ops)
    /\ \E err \in {"nil", "builder"} :
          /\ applyErr' = OpErrOf(ops[applyIdx], err)
          /\ bcalls' = bcalls \o OpCallsOf(ops[applyIdx], err)
          /\ imageCount' = IF ops[applyIdx].call = "FromImage" /\ err = "nil"
                           THEN imageCount + 1 ELSE imageCount
          /\ ops' = OpsApplied(applyIdx, err)
    /\ applyIdx' = applyIdx + 1
    /\ UNCHANGED <<dfPhase, buildArgs, envMap, runEnvMap, varScope, warned, nodes, loadErr>>
    /\ UNCHANGED shell
    /\ UNCHANGED <<bvars, lkvars, sbvars, tvars>>

\* Apply returns: after the loop or at the first error
ApplyReturn ==
    /\ dfPhase = "apply"
    /\ ~ApplyGoesOn(applyErr) \/ applyIdx > Len(ops)
    /\ dfPhase' = "applied"
    /\ UNCHANGED <<buildArgs, ops, envMap, runEnvMap, varScope, imageCount, warned, nodes,
                   loadErr, applyIdx, applyErr, bcalls>>
    /\ UNCHANGED shell
    /\ UNCHANGED <<bvars, lkvars, sbvars, tvars>>

\* the call that stands for the start of a further Apply in the calls made
ApplyMark == BCall("Apply", <<>>, <<>>, "nil")

\* DockerfileBuilder.Apply called once more, on a new builder
ApplyAgain ==
    /\ dfPhase = "applied"
    /\ \A i \in 1..Len(bcalls) : bcalls[i] # ApplyMark
    /\ dfPhase' = "apply"
    /\ applyIdx' = 1
    /\ applyErr' = "nil"
    /\ bcalls' = Append(bcalls, ApplyMark)
    /\ UNCHANGED <<buildArgs, ops, envMap, runEnvMap, varScope, imageCount, warned, nodes,
                   loadErr>>
    /\ UNCHANGED shell
    /\ UNCHANGED <<bvars, lkvars, sbvars, tvars>>

\* loading and applying a Dockerfile
NextDockerfile ==
    \/ LoadDockerfile
    \/ ReadFrom
    \/ ReadArg
    \/ ReadEnv
    \/ ReadRun
    \/ ReadWorkdir
    \/ ReadUnsupported
    \/ LoadReturn
    \/ ApplyStart
    \/ ApplyOp
    \/ ApplyReturn

SpecDockerfile == Init /\ [][NextDockerfile]_vars

\* loading and applying a Dockerfile made of the instructions of the second set
NextInstr ==
    \/ LoadDockerfile
    \/ ReadNode
    \/ LoadReturn
    \/ ApplyStart
    \/ ApplyOp
    \/ ApplyReturn

SpecInstr == Init /\ [][NextInstr]_vars

\* loading a Dockerfile and applying it to two builders
NextReapply ==
    \/ LoadDockerfile
    \/ ReadNode
    \/ LoadReturn
    \/ ApplyStart
    \/ ApplyOp
    \/ ApplyReturn
    \/ ApplyAgain

SpecReapply == Init /\ [][NextReapply]_vars

(***************************************************************************)
(* Lockfile (pkg/lock/lockfile.go): threads of two processes call TryLock, *)
(* Lock and Unlock on handles of one lockfile path.                        *)
(***************************************************************************)
\* what a call returned: the method and its error
Ret(op, err) == [op |-> op, err |-> err]

\* os.IsNotExist(err): the error is the errno ENOENT (or wraps it)
IsNotExist(err) == err = "ENOENT"

\* errors.New(err.Error()): a new error that has only the text of err
ErrorsNew(err) == IF err = "ENOENT" THEN "no such file or directory" ELSE err

\* the error is a lockfile.TemporaryError that says Temporary()
IsTemporary(err) == err = "busy"

\* lock(l.file): the mutex of the file is free for the threads of process p
MutexFree(p) == mutex[p] = 0

\* lockfile.TryLock of a thread of process p: the lockfile is created with
\* the pid of the process; a file with the pid of another process is busy,
\* a file with the own pid is replaced
FileTryLock(p, fault) ==
    IF fault THEN "io"
    ELSE IF lockfile = 0 \/ lockfile = p THEN "nil"
    ELSE "busy"

\* the watchers that see the lockfile change
Notified == events \cup watching

\* a thread calls TryLock
CallTryLock ==
    /\ ncalls < MaxCalls
    /\ \E t \in Threads :
          /\ pc[t] = "idle"
          /\ pc' = [pc EXCEPT ![t] = "try.lock"]
    /\ ncalls' = ncalls + 1
    /\ UNCHANGED <<mutex, lockfile, watching, events, ret, lkfaults>>
    /\ UNCHANGED <<bvars, dfvars, sbvars, tvars>>

\* TryLock: lock(l.file) returns when the mutex is free
TryLockMutex ==
    /\ \E t \in Threads :
          /\ pc[t] = "try.lock"
          /\ MutexFree(ProcOf(t))
          /\ mutex' = [mutex EXCEPT ![ProcOf(t)] = t]
          /\ pc' = [pc EXCEPT ![t] = "try.fs"]
    /\ UNCHANGED <<lockfile, watching, events, ret, ncalls, lkfaults>>
    /\ UNCHANGED <<bvars, dfvars, sbvars, tvars>>

\* the deferred function of TryLock and Lock releases the mutex when the
\* method returns an error
ReleaseOnError_Never(err) == FALSE

ReleaseOnError(err) == err # "nil"

\* TryLock or Lock returns err to thread t
Return(t, op, err) ==
    /\ ret' = [ret EXCEPT ![t] = Ret(op, err)]
    /\ pc' = [pc EXCEPT ![t] = IF err = "nil" THEN "held" ELSE "idle"]
    /\ mutex' = IF ReleaseOnError(err) THEN [mutex EXCEPT ![ProcOf(t)] = 0] ELSE mutex

\* the lockfile after lockfile.TryLock returned err to a thread of process p
FileAfterTryLock(p, err) == IF err = "nil" THEN p ELSE lockfile

\* TryLock: mkdirs, then l.lockfile.TryLock()
TryLockFile ==
    /\ \E t \in Threads :
          /\ pc[t] = "try.fs"
          /\ \E fault \in {"none", "mkdirs", "io"} :
                /\ fault # "none" => lkfaults < MaxLockFaults
                /\ lkfaults' = IF fault # "none" THEN lkfaults + 1 ELSE lkfaults
                /\ LET Tried(err) ==
                           /\ Return(t, "TryLock", err)
                           /\ lockfile' = FileAfterTryLock(ProcOf(t), err)
                           /\ events' = IF err = "nil" THEN Notified ELSE events
                   IN  IF fault = "mkdirs" THEN Tried("mk lock parent dir")
                       ELSE Tried(FileTryLock(ProcOf(t), fault = "io"))
    /\ UNCHANGED <<watching, ncalls>>
    /\ UNCHANGED <<bvars, dfvars, sbvars, tvars>>

\* a thread calls Lock
CallLock ==
    /\ ncalls < MaxCalls
    /\ \E t \in Threads :
          /\ pc[t] = "idle"
          /\ pc' = [pc EXCEPT ![t] = "lock.lock"]
    /\ ncalls' = ncalls + 1
    /\ UNCHANGED <<mutex, lockfile, watching, events, ret, lkfaults>>
    /\ UNCHANGED <<bvars, dfvars, sbvars, tvars>>

\* Lock: lock(l.file) returns when the mutex is free; then mkdirs
LockMutex ==
    /\ \E t \in Threads :
          /\ pc[t] = "lock.lock"
          /\ MutexFree(ProcOf(t))
          /\ \E fault \in BOOLEAN :
                /\ fault => lkfaults < MaxLockFaults
                /\ lkfaults' = IF fault THEN lkfaults + 1 ELSE lkfaults
                /\ IF fault
                   THEN /\ ret' = [ret EXCEPT ![t] = Ret("Lock", "mk lock parent dir")]
                        /\ pc' = [pc EXCEPT ![t] = "idle"]
                        /\ mutex' = IF ReleaseOnError("mk lock parent dir") THEN mutex
                                    ELSE [mutex EXCEPT ![ProcOf(t)] = t]
                   ELSE /\ ret' = ret
                        /\ pc' = [pc EXCEPT ![t] = "lock.fs"]
                        /\ mutex' = [mutex EXCEPT ![ProcOf(t)] = t]
    /\ UNCHANGED <<lockfile, watching, events, ncalls>>
    /\ UNCHANGED <<bvars, dfvars, sbvars, tvars>>

\* Lock returns from its loop when the lockfile is locked
LockSucceeded_OrBusy(err) == err \in {"nil", "busy"}

LockSucceeded(err) == err = "nil"

\* Lock, head of the loop: err = l.lockfile.TryLock(); return when locked or
\* when the error is not temporary, else wait for the file to change
LockFile ==
    /\ \E t \in Threads :
          /\ pc[t] = "lock.fs"
          /\ \E fault \in BOOLEAN :
                /\ fault => lkfaults < MaxLockFaults
                /\ lkfaults' = IF fault THEN lkfaults + 1 ELSE lkfaults
                /\ LET Tried(err) ==
                           IF LockSucceeded(err)
                           THEN /\ Return(t, "Lock", "nil")
                                /\ lockfile' = FileAfterTryLock(ProcOf(t), err)
                                /\ events' = IF err = "nil" THEN Notified ELSE events
                           ELSE IF ~IsTemporary(err)
                           THEN /\ Return(t, "Lock", err)
                                /\ UNCHANGED <<lockfile, events>>
                           ELSE /\ pc' = [pc EXCEPT ![t] = "lock.watch"]
                                /\ UNCHANGED <<lockfile, events, ret, mutex>>
                   IN  Tried(FileTryLock(ProcOf(t), fault))
    /\ UNCHANGED <<watching, ncalls>>
    /\ UNCHANGED <<bvars, dfvars, sbvars, tvars>>

\* Lock after awaitFileChange returned err: return the error unless it is
\* nil or says that the file does not exist, else try again
Awaited(t, err) ==
    IF err # "nil" /\ ~IsNotExist(err)
    THEN Return(t, "Lock", err)
    ELSE /\ pc' = [pc EXCEPT ![t] = "lock.fs"]
         /\ UNCHANGED <<ret, mutex>>

\* the error awaitFileChange returns when watcher.Add fails because the
\* lockfile does not exist
WatchAddError == ErrorsNew("ENOENT")

\* awaitFileChange up to its select: a new watcher is added to the lockfile
LockWatch ==
    /\ \E t \in Threads :
          /\ pc[t] = "lock.watch"
          /\ \E fault \in BOOLEAN :
                /\ fault => lkfaults < MaxLockFaults
                /\ lkfaults' = IF fault THEN lkfaults + 1 ELSE lkfaults
                /\ IF fault
                   THEN /\ Awaited(t, ErrorsNew("new watcher"))
                        /\ UNCHANGED <<watching, events>>
                   ELSE IF lockfile = 0
                   THEN /\ Awaited(t, WatchAddError)
                        /\ UNCHANGED <<watching, events>>
                   ELSE /\ pc' = [pc EXCEPT ![t] = "lock.wait"]
                        /\ watching' = watching \cup {t}
                        /\ events' = events \ {t}
                        /\ UNCHANGED <<ret, mutex>>
    /\ UNCHANGED <<lockfile, ncalls>>
    /\ UNCHANGED <<bvars, dfvars, sbvars, tvars>>

\* awaitFileChange, select: an event of the watcher
LockWakeEvent ==
    /\ \E t \in Threads :
          /\ pc[t] = "lock.wait"
          /\ t \in events
          /\ Awaited(t, "nil")
          /\ watching' = watching \ {t}
          /\ events' = events \ {t}
    /\ UNCHANGED <<lockfile, ncalls, lkfaults>>
    /\ UNCHANGED <<bvars, dfvars, sbvars, tvars>>

\* awaitFileChange, select: the timer of 5 seconds
LockWakeTimeout ==
    /\ \E t \in Threads :
          /\ pc[t] = "lock.wait"
          /\ Awaited(t, "nil")
          /\ watching' = watching \ {t}
          /\ events' = events \ {t}
    /\ UNCHANGED <<lockfile, ncalls, lkfaults>>
    /\ UNCHANGED <<bvars, dfvars, sbvars, tvars>>

\* awaitFileChange, select: an error of the watcher, returned as it is
LockWakeError ==
    /\ lkfaults < MaxLockFaults
    /\ lkfaults' = lkfaults + 1
    /\ \E t \in Threads :
          /\ pc[t] = "lock.wait"
          /\ \E err \in {"watcher", "ENOENT"} : Awaited(t, err)
          /\ watching' = watching \ {t}
          /\ events' = events \ {t}
    /\ UNCHANGED <<lockfile, ncalls>>
    /\ UNCHANGED <<bvars, dfvars, sbvars, tvars>>

\* Unlock: l.lockfile.Unlock() removes the lockfile of the own process
UnlockFile ==
    /\ \E t \in Threads :
          /\ pc[t] = "held"
          /\ pc' = [pc EXCEPT ![t] = "unlock.defer"]
          /\ \E fault \in BOOLEAN :
                /\ fault => lkfaults < MaxLockFaults
                /\ lkfaults' = IF fault THEN lkfaults + 1 ELSE lkfaults
                /\ IF fault
                   THEN /\ ret' = [ret EXCEPT ![t] = Ret("Unlock", "unlock: io")]
                        /\ UNCHANGED <<lockfile, events>>
                   ELSE IF lockfile # ProcOf(t)
                   THEN /\ ret' = [ret EXCEPT ![t] = Ret("Unlock", "unlock: rogue deletion")]
                        /\ UNCHANGED <<lockfile, events>>
                   ELSE /\ ret' = [ret EXCEPT ![t] = Ret("Unlock", "nil")]
                        /\ lockfile' = 0
                        /\ events' = Notified
    /\ UNCHANGED <<mutex, watching, ncalls>>
    /\ UNCHANGED <<bvars, dfvars, sbvars, tvars>>

\* Unlock: the deferred unlock(l.file) releases the mutex
UnlockMutex ==
    /\ \E t \in Threads :
          /\ pc[t] = "unlock.defer"
          /\ pc' = [pc EXCEPT ![t] = "idle"]
          /\ mutex' = [mutex EXCEPT ![ProcOf(t)] = 0]
    /\ UNCHANGED <<lockfile, watching, events, ret, ncalls, lkfaults>>
    /\ UNCHANGED <<bvars, dfvars, sbvars, tvars>>

\* the threads using the lockfile
NextLock ==
    \/ CallTryLock
    \/ TryLockMutex
    \/ TryLockFile
    \/ CallLock
    \/ LockMutex
    \/ LockFile
    \/ LockWatch
    \/ LockWakeEvent
    \/ LockWakeTimeout
    \/ LockWakeError
    \/ UnlockFile
    \/ UnlockMutex

SpecLock == Init /\ [][NextLock]_vars

\* every thread inside a call goes on, timers expire and holders unlock
LockFairness ==
    /\ WF_vars(TryLockMutex)
    /\ WF_vars(TryLockFile)
    /\ WF_vars(LockMutex)
    /\ WF_vars(LockFile)
    /\ WF_vars(LockWatch)
    /\ WF_vars(LockWakeEvent)
    /\ WF_vars(LockWakeTimeout)
    /\ WF_vars(UnlockFile)
    /\ WF_vars(UnlockMutex)

SpecLockFair == Init /\ [][NextLock]_vars /\ LockFairness

\* a run of the program builds an image from the step list of an ImageBuilder
\* or from a Dockerfile
NextBuilders ==
    \/ dfPhase = "none" /\ Next
    \/ steps = <<>> /\ nbuilds = 0 /\ NextDockerfile

SpecBuilders == Init /\ [][NextBuilders]_vars

(***************************************************************************)
(* Properties of the cached build operations.  They are stated over the    *)
(* record of the last operation: its inputs, the state before and after,   *)
(* and the calls it made.                                                  *)
(***************************************************************************)
CachedOps == {"SetAuthor", "SetWorkingDir", "SetEntrypoint", "SetCmd", "Run"}

\* the last operation went through BuildState.cached
ThroughCached ==
    /\ last.op \in CachedOps
    /\ last.op = "Run" => last.pre.image # {}

\* the cache key of the last operation
LastKey == [parent |-> last.pre.image, fp |-> last.fp]

\* the cache returned an image id for the key of the last operation
LastGetHit == ThroughCached /\ "get" \notin last.faults /\ LastKey \in DOMAIN last.pre.cache

\* ... and that image loaded from the image store
LastHitLoaded ==
    /\ LastGetHit
    /\ last.pre.cache[LastKey] \in last.pre.images
    /\ "load" \notin last.faults

\* ... or did not load
LastHitNotLoaded ==
    /\ LastGetHit
    /\ last.pre.cache[LastKey] \notin last.pre.images \/ "load" \in last.faults

\* the cache reported the temporary "not found" error
LastGetMiss == ThroughCached /\ "get" \notin last.faults /\ LastKey \notin DOMAIN last.pre.cache

\* the calls by which an op-specific action changes the stores
ActionCalls ==
    {"commitConfig", "run", "AddImageConfig", "AddImageLayer", "CreateBundle",
     "Bundle.SetSpec", "NewContainer", "Container.Start"}

NoActionCalled ==
    /\ last.acts = <<>>
    /\ last.commits = <<>>
    /\ \A i \in 1..Len(last.calls) : last.calls[i] \notin ActionCalls
    /\ last.post.bundles = last.pre.bundles
    /\ last.post.bundle = last.pre.bundle

NoCacheWrite ==
    /\ last.puts = <<>>
    /\ last.post.cache = last.pre.cache

\* C1: on a cache hit whose image loads, a cached build operation sets the
\* state's image and config to the cached image and returns without invoking
\* the op-specific action and without writing to the cache
Inv_C1_CacheHitUsesCachedImage ==
    LastHitLoaded =>
        /\ last.post.image = {last.pre.cache[LastKey]}
        /\ "config" \notin last.faults =>
              /\ last.post.config = last.pre.cache[LastKey].config
              /\ last.err = "nil"
        /\ NoActionCalled
        /\ NoCacheWrite
        /\ last.post.images = last.pre.images

Wit_C1_CacheHit ==
    /\ LastHitLoaded
    /\ last.op = "Run"
    /\ last.err = "nil"
    /\ last.post.image # last.pre.image

\* C2: on a cache miss the op-specific action is invoked exactly once; if it
\* succeeds, one cache entry is written afterwards, from (image before the
\* operation, fingerprint) to the image held after the action; if it fails,
\* no cache entry is written
Inv_C2_CacheMissBuildsAndPuts ==
    LastGetMiss =>
        /\ Len(last.acts) = 1
        /\ last.acts[1].err = "nil" =>
              /\ Len(last.puts) = 1
              /\ last.puts[1].parent = last.pre.image
              /\ last.puts[1].fp = last.fp
              /\ last.post.image = {last.puts[1].id}
              /\ last.puts[1].ok =>
                    /\ last.calls[Len(last.calls)] = "Cache.Put"
                    /\ last.post.cache = CachePut(last.pre.cache, last.pre.image, last.fp,
                                                  ImageID(TheImage(last.post.image)))
                    /\ last.err = "nil"
        /\ last.acts[1].err # "nil" => NoCacheWrite /\ last.err = last.acts[1].err

Wit_C2_CacheMissBuilt ==
    /\ LastGetMiss
    /\ last.op = "Run"
    /\ last.err = "nil"
    /\ Len(last.puts) = 1
    /\ last.post.cache # last.pre.cache

\* C3: a second Build of the same step list on the same store and cache,
\* with no failure and no garbage collection, commits no config and no layer
\* in any of its steps, every cached step being a cache hit, and returns the
\* image id the first Build returned
Inv_C3_SecondBuildFromCache ==
    (nbuilds = 2 /\ nfaults = 0 /\ ngc = 0 /\ Len(results) >= 1 /\ results[1].err = "nil") =>
        /\ (phase = "build" /\ last.op # "") =>
              /\ last.commits = <<>>
              /\ last.puts = <<>>
              /\ last.err = "nil"
              /\ ThroughCached => LastHitLoaded
              /\ last.post.images = last.pre.images
        /\ Len(results) = 2 => results[2] = results[1]

Wit_C3_SecondBuildDone ==
    /\ nbuilds = 2 /\ nfaults = 0 /\ ngc = 0
    /\ Len(results) = 2
    /\ results[1].err = "nil"
    /\ results[2].image = results[1].image
    /\ \E i \in 1..Len(steps) : steps[i].op = "Run"
    /\ \E i \in 1..Len(steps) : steps[i].op = "SetCmd"

\* the error cached returns after a build: the action's, else the one of Put
BuildError ==
    IF last.acts[1].err # "nil" THEN last.acts[1].err
    ELSE IF last.puts[1].ok THEN "nil" ELSE "cache put"

\* C4: when the cache returns an image id that no longer loads from the
\* image store, the operation is treated as a miss: the action runs, the
\* error of the failed load is not returned, and on success the cache entry
\* of the key is written with the newly built image id
Inv_C4_UnloadableHitIsMiss ==
    LastHitNotLoaded =>
        /\ Len(last.acts) = 1
        /\ last.err = BuildError
        /\ last.err = "nil" =>
              /\ LastKey \in DOMAIN last.post.cache
              /\ last.post.cache[LastKey] = ImageID(TheImage(last.post.image))
              /\ last.post.cache[LastKey] \in last.post.images
              /\ Len(last.commits) = 1
              /\ last.commits[1].result = last.post.cache[LastKey]

Wit_C4_CollectedImageRebuilt ==
    /\ LastHitNotLoaded
    /\ ngc = 1
    /\ last.pre.cache[LastKey] \notin last.pre.images
    /\ last.err = "nil"
    /\ last.post.cache[LastKey] \in last.post.images

\* C5: when the cache lookup fails with an error that is not the temporary
\* not-found error, the operation returns that error, invokes no action,
\* writes nothing to the cache and leaves the state's image unchanged
Inv_C5_CacheErrorReturned ==
    (ThroughCached /\ "get" \in last.faults) =>
        /\ last.err = "cache get"
        /\ NoActionCalled
        /\ NoCacheWrite
        /\ last.post.image = last.pre.image
        /\ last.post.images = last.pre.images

Wit_C5_CacheError ==
    /\ ThroughCached
    /\ "get" \in last.faults
    /\ last.pre.image # {}
    /\ LastKey \in DOMAIN last.pre.cache
    /\ last.err = "cache get"

(***************************************************************************)
(* Properties of the bundle, of the commits and of FromImage.              *)
(***************************************************************************)
\* C6: when a cached operation or CopyFile returns an error, no bundle is
\* in flight any more: the state references none and every bundle is closed
\* (unlocked), on every error path of the operation
Cex_C6_BundleReleasedOnError ==
    (last.op \in CachedOps \cup {"CopyFile"} /\ last.err # "nil") =>
        /\ last.post.bundle = 0
        /\ \A i \in 1..Len(last.post.bundles) : ~last.post.bundles[i].locked

\* C7: without any collaborator failure, the result image of every cache
\* entry with a parent image has exactly one history entry more than the
\* parent image
Cex_C7_CacheEntryHistory ==
    nfaults = 0 =>
        \A k \in DOMAIN cache :
            k.parent # {} =>
                Len(cache[k].config.History) = Len(TheImage(k.parent).config.History) + 1

\* C8: a config-only commit appends one history entry with created_by = the
\* config's author, comment = the fingerprint and empty_layer = true, stores
\* the config through AddImageConfig with the current image as parent, and
\* the resulting image becomes the state's image
Cex_C8_ConfigCommitHistory ==
    \A i \in 1..Len(last.commits) :
        last.commits[i].kind = "config" =>
            /\ last.commits[i].config.History =
                  Append(last.pre.config.History,
                         [CreatedBy |-> last.commits[i].config.Author,
                          Comment |-> last.fp, EmptyLayer |-> TRUE])
            /\ last.commits[i].parent = last.pre.image
            /\ last.post.image = {last.commits[i].result}

\* the image ImageByName resolves for the last operation, if the local
\* lookup succeeds
LocalLookupOK ==
    /\ last.arg[1] \in DOMAIN last.pre.tags
    /\ last.pre.tags[last.arg[1]] \in last.pre.images
    /\ "byname" \notin last.faults

Cex_C10_LaterFromStartsStage ==
    (last.op = "FromImage" /\ last.pre.image # {} /\ last.faults = {}) =>
        /\ last.err = "nil"
        /\ buildErr = "nil"
        /\ last.post.image = {Registry[last.arg[1]]}
        /\ last.post.config = Registry[last.arg[1]].config
        /\ TheImage(last.post.image).layers = Registry[last.arg[1]].layers

(***************************************************************************)
(* Properties of Build's loop and of DockerfileBuilder.Apply.              *)
(***************************************************************************)
\* the steps Build has run are the first steps of the list, in the order in
\* which they were added, each once, and only the last may have failed
StepsRunInOrder ==
    /\ Len(ran) <= Len(steps)
    /\ \A i \in 1..Len(ran) : ran[i].step = i
    /\ \A i \in 1..(Len(ran) - 1) : ran[i].err = "nil"

\* Build has returned: with the error of the step that failed, else after
\* the last step
BuildReturned == phase = "idle" /\ nbuilds > 0 /\ Len(steps) > 0

BuildReturnsFirstError ==
    BuildReturned =>
        /\ Len(ran) > 0
        /\ Len(results) = nbuilds
        /\ IF ran[Len(ran)].err # "nil"
           THEN results[nbuilds].err = ran[Len(ran)].err
           ELSE Len(ran) = Len(steps) /\ results[nbuilds].err \in {"nil", "panic"}

\* the calls Apply made on the builder for the operations themselves (the
\* closure of FROM also names the stage after FromImage)
OpCalls == SelectSeq(bcalls, LAMBDA c : c.call # "BuildName")

\* Apply has called the builder for the first operations of the list, in
\* their order, each once, and only the last call may have failed
OpsAppliedInOrder ==
    dfPhase \in {"apply", "applied"} =>
        /\ Len(OpCalls) = applyIdx - 1
        /\ Len(OpCalls) <= Len(ops)
        /\ \A i \in 1..Len(OpCalls) :
              /\ OpCalls[i].call = ops[i].call
              /\ OpCalls[i].env = ops[i].env
              /\ OpCalls[i].args = IF ops[i].call = "FromImage" THEN <<ops[i].args[1]>>
                                   ELSE ops[i].args
        /\ \A i \in 1..(Len(bcalls) - 1) : bcalls[i].err = "nil"
        /\ \A i \in 1..(Len(ops) - 1) : ops[i].line < ops[i + 1].line

ApplyReturnsFirstError ==
    dfPhase = "applied" =>
        IF Len(bcalls) > 0 /\ bcalls[Len(bcalls)].err # "nil"
        THEN applyErr = bcalls[Len(bcalls)].err
        ELSE Len(OpCalls) = Len(ops) /\ applyErr = "nil"

\* C11: Build runs the steps in the order in which they were added, each at
\* most once, stops at the first step that returns an error, runs no later
\* step and returns that error; Apply calls the builder for the operations
\* in the order of the Dockerfile and makes no call after the first that
\* failed
Inv_C11_StepsInOrderUntilError ==
    /\ StepsRunInOrder
    /\ BuildReturnsFirstError
    /\ OpsAppliedInOrder
    /\ ApplyReturnsFirstError

Wit_C11_BuildStoppedAtError ==
    /\ BuildReturned
    /\ Len(steps) = 3
    /\ Len(ran) = 2
    /\ ran[2].err # "nil"
    /\ results[nbuilds].err = ran[2].err

\* Apply stopped at a call that failed, with operations left
ApplyStoppedAtError ==
    /\ dfPhase = "applied"
    /\ Len(ops) = 3
    /\ Len(OpCalls) = 2
    /\ applyErr = "builder"

(***************************************************************************)
(* Properties of the lockfile.                                             *)
(***************************************************************************)
\* the threads between a successful Lock or TryLock and their Unlock
Holders == {t \in Threads : pc[t] = "held"}

\* C12: at most one caller at a time, thread of this process or of another,
\* is between a successful Lock or TryLock on the lockfile and its Unlock
Inv_C12_AtMostOneHolder == Cardinality(Holders) <= 1

Wit_C12_HolderAndContenders ==
    /\ pc[1] = "held"
    /\ pc[2] = "lock.lock"
    /\ pc[3] = "lock.wait"

\* C13: TryLock never waits: while a thread of the same process holds the
\* lockfile, a thread that has called TryLock is not held up until the holder
\* unlocks, it goes on at once and returns
Cex_C13_TryLockNeverWaits ==
    \A t \in Threads :
        (pc[t] = "try.lock" /\ \E u \in Holders : ProcOf(u) = ProcOf(t)) =>
            MutexFree(ProcOf(t))

\* C14: Lock returns an error only on an error that is not temporary: with
\* no failure of the file system, whenever the holder releases the lockfile,
\* Lock does not return an error
Cex_C14_LockFailsOnlyOnHardError ==
    \A t \in Threads : (ret[t].op = "Lock" /\ ret[t].err # "nil") => lkfaults > 0

\* C15: a Lock that found the lockfile held returns holding the lock in the
\* end, when every holder unlocks and no failure of the file system occurs
Cex_C15_BlockedLockAcquires ==
    \A t \in Threads : (pc[t] = "lock.watch") ~> (pc[t] = "held" \/ lkfaults > 0)

\* C16: the mutex of the lockfile is never leaked: a thread outside of its
\* calls does not hold it, whether Lock or TryLock returned an error or
\* Unlock failed to release the lockfile; after a successful Lock or TryLock
\* the thread holds the mutex and the lockfile; after a successful Unlock
\* the lockfile is released
Inv_C16_MutexNeverLeaked ==
    \A t \in Threads :
        /\ pc[t] \in {"idle", "try.lock", "lock.lock"} => mutex[ProcOf(t)] # t
        /\ pc[t] = "held" => mutex[ProcOf(t)] = t /\ lockfile = ProcOf(t)
        /\ (pc[t] = "unlock.defer" /\ ret[t].err = "nil") => lockfile # ProcOf(t)

Wit_C16_ErrorReturnedMutexFree ==
    \E t \in Threads :
        /\ pc[t] = "idle"
        /\ ret[t] = Ret("TryLock", "busy")
        /\ mutex[ProcOf(t)] = 0
        /\ \E u \in Threads : pc[u] = "idle" /\ ret[u] = Ret("Unlock", "unlock: io")

(***************************************************************************)
(* Properties of the variables of a Dockerfile stage.                      *)
(***************************************************************************)
\* instruction i was read and accepted as instruction instr
Accepted(i, instr) ==
    /\ i \in 1..Len(nodes)
    /\ nodes[i].err = "nil"
    /\ nodes[i].node.instr = instr

\* the FROM that starts the stage of instruction i, 0 before the first FROM
StageStart(i) ==
    LET froms == {j \in 1..(i - 1) : Accepted(j, "from")}
    IN  IF froms = {} THEN 0 ELSE CHOOSE j \in froms : \A h \in froms : h <= j

\* the names instruction j declares: the name of ARG, the keys of ENV
NamesOf(j) ==
    IF Accepted(j, "arg") THEN {nodes[j].node.args[1].lit}
    ELSE IF Accepted(j, "env")
    THEN {nodes[j].node.args[h].lit : h \in {h \in 1..(Len(nodes[j].node.args) - 1) : h % 2 = 1}}
    ELSE {}

\* the names declared in the stage of instruction i before instruction i
DeclaredBefore(i) == UNION {NamesOf(j) : j \in (StageStart(i) + 1)..(i - 1)}

\* the variables a word of instruction i refers to
RefsOf(i) ==
    {nodes[i].node.args[h].ref : h \in 1..Len(nodes[i].node.args)} \ {""}

\* the operation instruction i added uses no variable of an earlier stage:
\* RUN gets only names of its stage as additional env, a word whose
\* variable is not declared in the stage is replaced by nothing, and a FROM
\* that is accepted refers only to names of the stage it ends
OpInStageScope(o) ==
    /\ o.call = "Run" => DOMAIN o.env \subseteq DeclaredBefore(o.line)
    /\ (o.call = "SetWorkingDir" /\ RefsOf(o.line) \cap DeclaredBefore(o.line) = {}
            /\ RefsOf(o.line) # {}) => o.args = <<"">>
    /\ (o.call = "AddEnv" /\ RefsOf(o.line) \cap DeclaredBefore(o.line) = {}
            /\ RefsOf(o.line) # {}) => \A k \in DOMAIN o.env : o.env[k] = ""
    /\ o.call = "FromImage" => RefsOf(o.line) \subseteq DeclaredBefore(o.line)

\* C17: right after an accepted FROM envMap, runEnvMap and varScope are
\* empty, and in the instructions that follow it they hold only names
\* declared since that FROM: no ENV or ARG of an earlier stage substitutes a
\* variable of, or is passed as additional RUN env to, a later instruction
Inv_C17_FromResetsScope ==
    /\ Accepted(Len(nodes), "from") =>
          envMap = {} /\ runEnvMap = <<>> /\ varScope = <<>>
    /\ dfPhase # "none" =>
          /\ envMap \subseteq DeclaredBefore(Len(nodes) + 1)
          /\ DOMAIN runEnvMap \subseteq DeclaredBefore(Len(nodes) + 1)
          /\ DOMAIN varScope \subseteq DeclaredBefore(Len(nodes) + 1)
    /\ \A i \in 1..Len(ops) : OpInStageScope(ops[i])

Wit_C17_EarlierStageNotUsed ==
    /\ Len(nodes) = 4
    /\ Accepted(1, "arg") /\ nodes[1].node.args = <<Lit("X"), Lit("d1")>>
    /\ Accepted(2, "from")
    /\ Accepted(3, "run")
    /\ Accepted(4, "workdir") /\ nodes[4].node.args = <<Var("X")>>
    /\ Len(ops) = 3
    /\ ops[2].call = "Run" /\ ops[2].env = <<>>
    /\ ops[3].call = "SetWorkingDir" /\ ops[3].args = <<"">>

(***************************************************************************)
(* Properties of ENV and ARG in the operations of a Dockerfile.            *)
(***************************************************************************)
\* the operations of ops, and the calls of Apply, that are AddEnv
AddEnvOps == SelectSeq(ops, LAMBDA o : o.call = "AddEnv")
AddEnvCalls == SelectSeq(bcalls, LAMBDA c : c.call = "AddEnv")

\* the value ARG instruction j gives its name
ArgValueOf(j) ==
    ArgValue(nodes[j].node.args[1].lit, ArgDefault(readInstructionNode(nodes[j].node).r))

\* the ARG instructions of the stage of instruction i that come before i
ArgsBefore(i) == {j \in (StageStart(i) + 1)..(i - 1) : Accepted(j, "arg")}

\* the values the ARG instructions read so far have given
ArgValues == {ArgValueOf(j) : j \in {j \in 1..Len(nodes) : Accepted(j, "arg")}} \ {""}

\* the values operation o hands to the builder
ValuesOf(o) ==
    {o.args[h] : h \in 1..Len(o.args)} \cup {o.env[k] : k \in DOMAIN o.env}

\* one AddEnv operation for each accepted ENV instruction, in the order of
\* the instructions, with the keys of its instruction and the unquoted value
\* where the value is written without a variable; no operation for an ARG
AddEnvOncePerEnv ==
    /\ \A i \in 1..Len(AddEnvOps) : Accepted(AddEnvOps[i].line, "env")
    /\ \A i, j \in 1..Len(AddEnvOps) : i < j => AddEnvOps[i].line < AddEnvOps[j].line
    /\ \A j \in 1..Len(nodes) :
          Accepted(j, "env") => \E i \in 1..Len(AddEnvOps) : AddEnvOps[i].line = j
    /\ \A i \in 1..Len(AddEnvOps) :
          /\ DOMAIN AddEnvOps[i].env = NamesOf(AddEnvOps[i].line)
          /\ LET args == nodes[AddEnvOps[i].line].node.args
             IN  args[2].ref = "" => AddEnvOps[i].env[args[1].lit] = unquote(args[2].lit)
    /\ \A i \in 1..Len(ops) : ~Accepted(ops[i].line, "arg")

\* Apply calls AddEnv for the AddEnv operations in their order, for all of
\* them when it returns without error
AddEnvCalledInOrder ==
    /\ Len(AddEnvCalls) <= Len(AddEnvOps)
    /\ \A i \in 1..Len(AddEnvCalls) : AddEnvCalls[i].env = AddEnvOps[i].env
    /\ (dfPhase = "applied" /\ applyErr = "nil") => Len(AddEnvCalls) = Len(AddEnvOps)

\* the additional env of a Run holds only values of ARG instructions that
\* come before it in its stage
RunEnvFromStageArgs ==
    \A i \in 1..Len(ops) :
        ops[i].call = "Run" =>
            \A k \in DOMAIN ops[i].env :
                \E j \in ArgsBefore(ops[i].line) :
                    /\ NamesOf(j) = {k}
                    /\ ArgValueOf(j) = ops[i].env[k]

\* an operation other than Run holds the value of an ARG only where its
\* instruction names, as a variable, an ARG that comes before it in its stage
ArgValueOnlyBySubstitution ==
    \A i \in 1..Len(ops) :
        (ops[i].call # "Run" /\ ValuesOf(ops[i]) \cap ArgValues # {}) =>
            \E j \in ArgsBefore(ops[i].line) :
                /\ NamesOf(j) \subseteq RefsOf(ops[i].line)
                /\ ArgValueOf(j) \in ValuesOf(ops[i])

EnvNamesBefore(i) ==
    UNION {NamesOf(j) : j \in {j \in (StageStart(i) + 1)..(i - 1) : Accepted(j, "env")}}

\* a warning about name k has been emitted
Warned(msg, k) == \E i \in 1..Len(warned) : warned[i] = [msg |-> msg, key |-> k]

\* C19: at every point of parsing a stage no name is both a key of runEnvMap
\* and declared by ENV; where the stage declares ARG X with a value and then
\* ENV X a warning about X is emitted, and X is not in the additional env of
\* a RUN that follows the ENV
Cex_C19_EnvRemovesRunEnv ==
    /\ DOMAIN runEnvMap \cap envMap = {}
    /\ \A i \in 1..Len(nodes) :
          \A k \in NamesOf(i) :
              (Accepted(i, "env")
                    /\ \E j \in ArgsBefore(i) : NamesOf(j) = {k} /\ ArgValueOf(j) # "") =>
                  Warned("arg is shadowed by env var", k)
    /\ \A i \in 1..Len(ops) :
          ops[i].call = "Run" => DOMAIN ops[i].env \cap EnvNamesBefore(ops[i].line) = {}

\* C20: right after ARG k is read, when ENV has not declared k in the stage,
\* runEnvMap and varScope hold k with the build arg given for k, else the
\* declared default, else the empty value; when ENV has declared k, a
\* warning is emitted and k keeps the value of ENV
Cex_C20_ArgStoresValue ==
    (dfPhase = "load" /\ Accepted(Len(nodes), "arg")) =>
        \A k \in NamesOf(Len(nodes)) :
            IF k \notin EnvNamesBefore(Len(nodes))
            THEN /\ k \in DOMAIN runEnvMap /\ runEnvMap[k] = ArgValueOf(Len(nodes))
                 /\ k \in DOMAIN varScope /\ varScope[k] = ArgValueOf(Len(nodes))
            ELSE /\ Warned("arg is shadowed by env var", k)
                 /\ k \notin DOMAIN runEnvMap

(***************************************************************************)
(* Properties of variable expansion, of the shell and of the errors of     *)
(* LoadDockerfile.                                                         *)
(***************************************************************************)
\* the words of instruction i as they are written
RawWords(i) == [h \in 1..Len(nodes[i].node.args) |-> Raw(nodes[i].node.args[h])]

\* the words of instruction i expanded with the scope the instruction was
\* read in
Expanded(i) ==
    [h \in 1..Len(nodes[i].node.args) |-> ProcessWord(nodes[i].node.args[h], nodes[i].scope)]

\* the positions of the keys of an ENV instruction
KeyPositions(i) == {h \in 1..(Len(nodes[i].node.args) - 1) : h % 2 = 1}

\* RUN, CMD, ENTRYPOINT: the words reach the builder as they are written (a
\* list living in the array of a SHELL is left aside here)
BodyNotExpanded(o) ==
    (o.call \in {"Run", "SetCmd", "SetEntrypoint"} /\ o.arr = 0) =>
        IF nodes[o.line].node.json THEN o.args = RawWords(o.line)
        ELSE o.args[Len(o.args)] = Join(RawWords(o.line))

\* ENV: the values are expanded with the scope before the instruction
EnvValuesExpanded(o) ==
    o.call = "AddEnv" =>
        \A h \in KeyPositions(o.line) :
            \E k \in DOMAIN o.env : o.env[k] = unquote(Expanded(o.line)[h + 1])

\* ENV: the keys are the words as they are written
EnvKeysNotExpanded(o) ==
    o.call = "AddEnv" =>
        DOMAIN o.env = {unquote(RawWords(o.line)[h]) : h \in KeyPositions(o.line)}

\* the other instructions: every argument is expanded
OthersExpanded(o) ==
    /\ o.call \in {"FromImage", "SetWorkingDir", "SetUser", "SetStopSignal",
                   "AddExposedPorts", "AddVolumes"} => o.args = Expanded(o.line)
    /\ o.call = "label" => o.env = toMap(Expanded(o.line))
    /\ o.call \in {"opCopy", "opAdd"} =>
          /\ o.args[1] \o <<o.args[2]>> = Expanded(o.line) \o (IF Len(Expanded(o.line)) = 1 THEN <<"">> ELSE <<>>)
          /\ o.env.chown = ProcessWord(nodes[o.line].node.flags.chown, nodes[o.line].scope)
          /\ o.env.from = ProcessWord(nodes[o.line].node.flags.from, nodes[o.line].scope)

\* what holds of expansion in the code: bodies as written, ENV values and
\* the arguments of the other instructions expanded
ExpansionBesidesEnvKeys ==
    \A i \in 1..Len(ops) :
        BodyNotExpanded(ops[i]) /\ EnvValuesExpanded(ops[i]) /\ OthersExpanded(ops[i])

\* C21: the bodies of RUN, CMD and ENTRYPOINT and the keys of ENV reach the
\* builder without expansion; the arguments of every other instruction and
\* the values of ENV are expanded with the scope as it is at the instruction
Cex_C21_EnvKeysNotExpanded ==
    \A i \in 1..Len(ops) :
        /\ BodyNotExpanded(ops[i])
        /\ EnvKeysNotExpanded(ops[i])
        /\ EnvValuesExpanded(ops[i])
        /\ OthersExpanded(ops[i])

\* the shell in effect at instruction i: the arguments of the latest SHELL
\* accepted before it, else the default
ShellAt(i) ==
    LET shells == {j \in 1..(i - 1) : Accepted(j, "shell")}
    IN  IF shells = {} THEN DefaultShell.v
        ELSE RawWords(CHOOSE j \in shells : \A h \in shells : h <= j)

\* the list of a RUN, CMD or ENTRYPOINT is the shell in effect at its
\* instruction followed by the joined arguments, or the arguments themselves
\* in exec form
CmdListAsRead(o) ==
    o.call \in {"Run", "SetCmd", "SetEntrypoint"} =>
        IF nodes[o.line].node.json THEN o.args = RawWords(o.line)
        ELSE o.args = Append(ShellAt(o.line), Join(RawWords(o.line)))

\* what holds of the lists in the code: those with an array of their own are
\* as they were read
OwnListsAsRead == \A i \in 1..Len(ops) : ops[i].arr = 0 => CmdListAsRead(ops[i])

\* C22: when the Dockerfile is applied, the list of every RUN, CMD or
\* ENTRYPOINT in shell form is the shell in effect at that instruction
\* followed by its space-joined arguments, whatever was parsed after it, and
\* an exec-form list is delivered as written
Cex_C22_LaterInstrKeepsList ==
    dfPhase \in {"loaded", "apply", "applied"} =>
        \A i \in 1..Len(ops) : CmdListAsRead(ops[i])

\* C23: LoadDockerfile returns an error at the first instruction readNode has
\* no case for: the error names the instruction and its line, the
\* instruction is the last one read, it added no operation, and the
\* operations are those of the instructions before it
Inv_C23_UnsupportedStopsLoad ==
    \A i \in 1..Len(nodes) :
        nodes[i].node.instr \notin Supported =>
            /\ i = Len(nodes)
            /\ dfPhase = "failed"
            /\ nodes[i].err # "nil"
            /\ loadErr = "line " \o ToString(i) \o ": " \o nodes[i].node.instr
                         \o ": unsupported instruction \"" \o nodes[i].node.instr \o "\""
            /\ \A h \in 1..Len(ops) : ops[h].line < i
            /\ bcalls = <<>>

Wit_C23_OnbuildAfterTwo ==
    /\ Len(nodes) = 3
    /\ nodes[3].node.instr = "onbuild"
    /\ Accepted(1, "env") /\ Accepted(2, "run")
    /\ Len(ops) = 2
    /\ dfPhase = "failed"
    /\ loadErr = "line 3: onbuild: unsupported instruction \"onbuild\""

(***************************************************************************)
(* The SpecBuilder (unnamed/part_000): the builder of the runtime spec of  *)
(* a bundle.  Strings that the code splits, trims or sorts are sequences   *)
(* of one-byte strings.                                                    *)
(***************************************************************************)
\* 1<<32, in the width of the model
IdLimit == 2^IdBits

\* the conversion uint32(x) of a wider unsigned number
uint32(x) == x % IdLimit

\* os.Geteuid() and os.Getegid() of the caller
Euid == 50
Egid == 60

\* the value a pointer or a slice that is not nil holds
Deref(p) == CHOOSE x \in p : TRUE

Range(l) == {l[i] : i \in 1..Len(l)}

\* idutils.UserIds and UserIds.User(): the numbers as a User
UserIds(uid, gid) == [Uid |-> uid, Gid |-> gid]
UserOf(ids) == User(ToString(ids.Uid), ToString(ids.Gid))

\* idutils.User.String()
UserString(u) == IF u.Group # "" THEN u.User \o ":" \o u.Group ELSE u.User

\* the numbers a user or group can be given as
Ids == {0, 100, IdLimit, IdLimit + 1}

\* rootfs/etc/passwd and rootfs/etc/group of the bundle: name -> id
EtcPasswd == [n \in {"root", "app"} |-> IF n = "root" THEN 0 ELSE 100]
EtcGroup == [n \in {"root", "app"} |-> IF n = "root" THEN 0 ELSE 100]

\* the id of a number or of a name of the file, -1 for an unknown name
LookupId(s, file) ==
    IF \E n \in Ids : ToString(n) = s THEN CHOOSE n \in Ids : ToString(n) = s
    ELSE IF s \in DOMAIN file THEN file[s]
    ELSE -1

\* idutils.User.Resolve(rootfs): the numeric ids of the user, an error for
\* a name that is not in the files of the rootfs
Resolve(u) ==
    LET uid == IF u.User = "" THEN 0 ELSE LookupId(u.User, EtcPasswd)
        gid == IF u.Group = "" THEN 0 ELSE LookupId(u.Group, EtcGroup)
    IN  IF uid < 0 THEN [ids |-> UserIds(0, 0), err |-> "user not found: " \o u.User]
        ELSE IF gid < 0 THEN [ids |-> UserIds(0, 0), err |-> "group not found: " \o u.Group]
        ELSE [ids |-> UserIds(uid, gid), err |-> "nil"]

\* the users SetProcessUser is called with
UserInputs ==
    {User("root", "root"), User("root", "app"), User(ToString(IdLimit), "0"),
     User("0", ToString(IdLimit + 1))}

\* idutils.ParseUser of the users of the image configs
ParseUser(s) ==
    CASE s = "" -> User("", "")
      [] s = "100:100" -> User("100", "100")
      [] s = "root" -> User("root", "")

\* the bytes of the port strings, in byte order
ByteOrder == <<" ", ",", "0", "3", "4", "8", "9">>
ByteRank(c) == CHOOSE i \in 1..Len(ByteOrder) : ByteOrder[i] = c

\* a < b for strings, as sort.Strings compares them
RECURSIVE StringLess(_, _)
StringLess(a, b) ==
    IF b = <<>> THEN FALSE
    ELSE IF a = <<>> THEN TRUE
    ELSE IF Head(a) = Head(b) THEN StringLess(Tail(a), Tail(b))
    ELSE ByteRank(Head(a)) < ByteRank(Head(b))

\* sort.Strings of the keys of a map
RECURSIVE SortStrings(_)
SortStrings(S) ==
    IF S = {} THEN <<>>
    ELSE LET m == CHOOSE x \in S : \A y \in S \ {x} : StringLess(x, y)
         IN  <<m>> \o SortStrings(S \ {m})

\* strings.Join(l, sep)
RECURSIVE StringsJoin(_, _)
StringsJoin(l, sep) ==
    IF l = <<>> THEN <<>>
    ELSE IF Len(l) = 1 THEN l[1]
    ELSE l[1] \o <<sep>> \o StringsJoin(Tail(l), sep)

\* strings.Split(s, sep) for a separator of one byte
RECURSIVE StringsSplit(_, _)
StringsSplit(s, sep) ==
    IF \E i \in 1..Len(s) : s[i] = sep
    THEN LET i == CHOOSE k \in 1..Len(s) : s[k] = sep /\ \A h \in 1..(k - 1) : s[h] # sep
         IN  <<SubSeq(s, 1, i - 1)>> \o StringsSplit(SubSeq(s, i + 1, Len(s)), sep)
    ELSE <<s>>

\* strings.Trim(s, c) for a cutset of one byte
RECURSIVE StringsTrim(_, _)
StringsTrim(s, c) ==
    IF s # <<>> /\ Head(s) = c THEN StringsTrim(Tail(s), c)
    ELSE IF s # <<>> /\ s[Len(s)] = c THEN StringsTrim(SubSeq(s, 1, Len(s) - 1), c)
    ELSE s

\* the port strings "80", " 80", "443" and "9"
P80 == <<"8", "0">>
P80sp == <<" ", "8", "0">>
P443 == <<"4", "4", "3">>
P9 == <<"9">>

\* the lists AddExposedPorts is called with
PortLists == {<<P80>>, <<P80sp>>, <<P80, P443>>, <<P443, P80>>, <<>>}

\* the image configs ApplyImage is called with; ExposedPorts is a set, nil
\* is the empty set of sets
ImageInputs ==
    {[User |-> "100:100", Entrypoint |-> {<<"/entry", "-x">>}, Cmd |-> {<<"arg">>},
      Env |-> {<<"A", "1">>}, WorkingDir |-> "/w", Labels |-> {<<"k", "v">>},
      Author |-> "me", StopSignal |-> "", ExposedPorts |-> {{P443, P9}}],
     [User |-> "", Entrypoint |-> {}, Cmd |-> {<<"arg">>},
      Env |-> {}, WorkingDir |-> "", Labels |-> {},
      Author |-> "", StopSignal |-> "SIGINT", ExposedPorts |-> {}]}

\* the orders a range over the keys of a map can have
Orders(S) == {l \in UNION {[1..n -> S] : n \in {Cardinality(S)}} : Range(l) = S}

\* Generator.AddAnnotation(k, v)
AddAnnotation(g, k, v) ==
    [g EXCEPT !.annotations = [x \in DOMAIN @ \cup {k} |-> IF x = k THEN v ELSE @[x]]]

\* seccomp.DefaultProfile(spec): the syscalls allowed depend on the
\* capabilities of the spec
DefaultProfile(g) ==
    [nil |-> FALSE, DefaultAction |-> "SCMP_ACT_ERRNO",
     Syscalls |-> {"read", "write"}
                  \cup (IF "CAP_SYS_PTRACE" \in g.caps THEN {"ptrace"} ELSE {})
                  \cup (IF "CAP_CHOWN" \in g.caps THEN {"chown"} ELSE {})]

\* the profile SetLinuxSeccomp is called with
CustomProfile == [nil |-> FALSE, DefaultAction |-> "SCMP_ACT_KILL", Syscalls |-> {"read"}]

\* a mapping of size ids from the host id to the container id
IDMapping(hid, cid, size) == [HostID |-> hid, ContainerID |-> cid, Size |-> size]

\* the calls that set a seccomp profile
SeccompCalls == {"SetLinuxSeccompDefault", "SetLinuxSeccompUnconfined", "SetLinuxSeccomp"}

\* a call that changes the builder is noted: the ports it was given and,
\* when it sets a seccomp profile, its name (called: the calls other than
\* SetLinuxSeccompDefault made so far, seccomp: the last call) and the
\* profile given to it; what Spec returned before is no longer the spec of
\* the builder
NotedWith(name, ports, given) ==
    /\ sbghost' = [called |-> sbghost.called \cup ({name} \cap (SeccompCalls \ {"SetLinuxSeccompDefault"})),
                   ports |-> sbghost.ports \cup ports,
                   seccomp |-> IF name \in SeccompCalls THEN name ELSE sbghost.seccomp,
                   given |-> IF name \in SeccompCalls THEN given ELSE sbghost.given]
    /\ rets' = <<>>

Noted(name, ports) == NotedWith(name, ports, {})

\* specconv.ToRootless(spec): the caller's ids are mapped to 0
ToRootless ==
    /\ gspec' = [gspec EXCEPT !.uidMappings = <<IDMapping(Euid, 0, 1)>>,
                              !.gidMappings = <<IDMapping(Egid, 0, 1)>>]
    /\ sb' = [sb EXCEPT !.rootless = TRUE]
    /\ Noted("ToRootless", {})
    /\ UNCHANGED <<bvars, dfvars, lkvars, tvars>>

SetProcessUser ==
    \E u \in UserInputs :
        /\ sb' = [sb EXCEPT !.user = u]
        /\ Noted("SetProcessUser", {})
        /\ UNCHANGED <<gspec, bvars, dfvars, lkvars, tvars>>

\* spec.Linux.Seccomp = seccomp.DefaultProfile(spec)
SetLinuxSeccompDefaultOn(g) == [g EXCEPT !.seccomp = DefaultProfile(g)]

SetLinuxSeccompDefault ==
    /\ gspec' = SetLinuxSeccompDefaultOn(gspec)
    /\ Noted("SetLinuxSeccompDefault", {})
    /\ UNCHANGED <<sb, bvars, dfvars, lkvars, tvars>>

SetLinuxSeccompUnconfined ==
    /\ gspec' = [gspec EXCEPT !.seccomp = [DefaultProfile(gspec) EXCEPT
                                              !.DefaultAction = "SCMP_ACT_ALLOW",
                                              !.Syscalls = {}]]
    /\ sb' = [sb EXCEPT !.customSeccomp = TRUE]
    /\ Noted("SetLinuxSeccompUnconfined", {})
    /\ UNCHANGED <<bvars, dfvars, lkvars, tvars>>

SetLinuxSeccomp ==
    \E profile \in {CustomProfile, NoSeccomp} :
        /\ gspec' = [gspec EXCEPT !.seccomp = profile]
        /\ sb' = [sb EXCEPT !.customSeccomp = TRUE]
        /\ NotedWith("SetLinuxSeccomp", {}, {profile})
        /\ UNCHANGED <<bvars, dfvars, lkvars, tvars>>

\* AddExposedPorts on the spec g
AddExposedPortsTo(g, ports) ==
    LET old == IF g.exposedPorts # <<>>
               THEN {StringsTrim(p, " ") : p \in Range(StringsSplit(g.exposedPorts, ","))}
               ELSE {}
        exposed == old \cup {StringsTrim(e, " ") : e \in Range(ports)}
    IN  IF exposed # {}
        THEN [g EXCEPT !.exposedPorts = StringsJoin(SortStrings(exposed), ",")]
        ELSE g

AddExposedPorts ==
    \E ports \in PortLists :
        /\ gspec' = AddExposedPortsTo(gspec, ports)
        /\ Noted("AddExposedPorts", Range(ports))
        /\ UNCHANGED <<sb, bvars, dfvars, lkvars, tvars>>

\* b.proot, made when it is nil
PRootOf(b) == IF b.proot = {} THEN [Path |-> "", Ports |-> <<>>] ELSE Deref(b.proot)

SetPRootPath ==
    \E prootPath \in {"/bin/proot"} :
        /\ sb' = [sb EXCEPT !.proot = {[PRootOf(sb) EXCEPT !.Path = prootPath]}]
        /\ gspec' = [gspec EXCEPT
                        !.mounts = @ \cup {<<"tmpfs", "/dev/proot">>,
                                           <<prootPath, "/dev/proot/proot">>},
                        !.env = {e \in @ : e[1] \notin {"PROOT_TMP_DIR", "PROOT_NO_SECCOMP"}}
                                \cup {<<"PROOT_TMP_DIR", "/dev/proot">>,
                                      <<"PROOT_NO_SECCOMP", "1">>},
                        !.caps = @ \cup {"CAP_SYS_PTRACE"}]
        /\ Noted("SetPRootPath", {})
        /\ UNCHANGED <<bvars, dfvars, lkvars, tvars>>

AddPRootPortMapping ==
    \E published \in {"8080", "8443"} : \E target \in {"80"} :
        /\ Len(PRootOf(sb).Ports) < MaxPorts
        /\ sb' = [sb EXCEPT !.proot = {[PRootOf(sb) EXCEPT
                                           !.Ports = Append(@, published \o ":" \o target)]}]
        /\ Noted("AddPRootPortMapping", {})
        /\ UNCHANGED <<gspec, bvars, dfvars, lkvars, tvars>>

\* SetProcessEntrypoint on the builder b: b.entrypoint = v; b.cmd = nil
SetProcessEntrypointOn(b, v) == [b EXCEPT !.entrypoint = v, !.cmd = {}]

SetProcessEntrypoint ==
    \E v \in {{<<"/entry", "-x">>}} :
        /\ sb' = SetProcessEntrypointOn(sb, v)
        /\ Noted("SetProcessEntrypoint", {})
        /\ UNCHANGED <<gspec, bvars, dfvars, lkvars, tvars>>

SetProcessCmd ==
    \E v \in {{<<"arg">>}} :
        /\ sb' = [sb EXCEPT !.cmd = v]
        /\ Noted("SetProcessCmd", {})
        /\ UNCHANGED <<gspec, bvars, dfvars, lkvars, tvars>>

\* the arguments of the image: entrypoint, then cmd
EntrypointArgs(b) ==
    IF b.entrypoint # {} \/ b.cmd # {}
    THEN IF b.entrypoint # {} /\ b.cmd # {} THEN Deref(b.entrypoint) \o Deref(b.cmd)
         ELSE IF b.entrypoint # {} THEN Deref(b.entrypoint)
         ELSE Deref(b.cmd)
    ELSE <<>>

\* "-p", port for each port of b.proot.Ports
RECURSIVE PortArgs(_)
PortArgs(ports) ==
    IF ports = <<>> THEN <<>> ELSE <<"-p", Head(ports)>> \o PortArgs(Tail(ports))

\* the arguments of proot
PRootArgs(b) ==
    <<"/dev/proot/proot", "--kill-on-exit", "-n">>
    \o (IF UserString(b.user) = "0:0" THEN <<"-0">> ELSE <<"-i", UserString(b.user)>>)
    \o PortArgs(Deref(b.proot).Ports)

\* applyEntrypoint that puts the arguments of proot before those of the spec
applyEntrypoint_BeforeSpecArgs(b, g) ==
    [g EXCEPT !.args = IF b.proot # {} THEN PRootArgs(b) \o g.args ELSE EntrypointArgs(b)]

\* applyEntrypoint on the spec g
applyEntrypoint(b, g) ==
    [g EXCEPT !.args = IF b.proot # {} THEN PRootArgs(b) \o EntrypointArgs(b)
                       ELSE EntrypointArgs(b)]

\* ApplyImage with the keys of cfg.ExposedPorts ranged over in the order ports
ApplyImage ==
    \E img \in ImageInputs :
    \E ports \in IF img.ExposedPorts = {} THEN {<<>>} ELSE Orders(Deref(img.ExposedPorts)) :
        LET b1 == [sb EXCEPT !.user = ParseUser(img.User)]
            b2 == [SetProcessEntrypointOn(b1, img.Entrypoint) EXCEPT !.cmd = img.Cmd]
            g1 == [gspec EXCEPT
                      !.env = {e \in @ : \A n \in img.Env : n[1] # e[1]} \cup img.Env,
                      !.cwd = IF img.WorkingDir # "" THEN img.WorkingDir ELSE @]
            g2 == IF <<"k", "v">> \in img.Labels THEN AddAnnotation(g1, "k", "v") ELSE g1
            g3 == IF img.Author # ""
                  THEN AddAnnotation(g2, "org.opencontainers.image.author", img.Author)
                  ELSE g2
            g4 == IF img.StopSignal # ""
                  THEN AddAnnotation(g3, "org.opencontainers.image.stopSignal", img.StopSignal)
                  ELSE g3
        IN  /\ sb' = b2
            /\ gspec' = IF img.ExposedPorts # {}
                        THEN [g4 EXCEPT !.exposedPorts = StringsJoin(ports, ",")]
                        ELSE g4
            /\ Noted("ApplyImage", Range(ports))
            /\ UNCHANGED <<bvars, dfvars, lkvars, tvars>>

\* usr.Uid > 1<<32
ExceedsRange(id) == id > IdLimit

\* the check of rootless mode that looks at the uid only
RootlessRefused_UidOnly(b, usr) == b.rootless /\ usr.Uid # 0

\* b.rootless && (usr.Uid != 0 || usr.Gid != 0)
RootlessRefused(b, usr) == b.rootless /\ (usr.Uid # 0 \/ usr.Gid # 0)

\* the default profile whatever the caller has set
InstallsDefault_Always(b) == TRUE

\* if !b.customSeccomp
InstallsDefault(b) == ~b.customSeccomp

\* what Spec returns as an error
SpecErr(b, g, err) ==
    [b |-> b, g |-> g, err |-> err, added |-> <<>>, installed |-> FALSE]

\* Spec from "Apply entrypoint/command" on, for the ids usr of the native
\* process
SpecApply(b, g, usr) ==
    LET g1 == applyEntrypoint(b, g)
        g2 == [g1 EXCEPT !.uid = uint32(usr.Uid), !.gid = uint32(usr.Gid)]
        um == IDMapping(uint32(Euid), uint32(usr.Uid), 1)
        gm == IDMapping(uint32(Egid), uint32(usr.Gid), 1)
        g3 == IF b.rootless
              THEN [g2 EXCEPT !.uidMappings = <<um>>, !.gidMappings = <<gm>>]
              ELSE g2
        g4 == IF InstallsDefault(b) THEN SetLinuxSeccompDefaultOn(g3) ELSE g3
    IN  [b |-> b, g |-> g4, err |-> "nil",
         added |-> IF b.rootless THEN <<um, gm>> ELSE <<>>,
         installed |-> InstallsDefault(b)]

\* Spec(rootfs) on the builder b and its spec g: the builder and the spec
\* afterwards, the error, the mappings added and whether the default
\* profile was installed
SpecOf(b, g) ==
    LET r == Resolve(b.user)
        b1 == [b EXCEPT !.user = UserOf(r.ids)]
    IN  IF r.err # "nil" THEN SpecErr(b, g, r.err)
        ELSE IF ExceedsRange(r.ids.Uid)
        THEN SpecErr(b1, g, "uid " \o ToString(r.ids.Uid) \o " exceeds range")
        ELSE IF ExceedsRange(r.ids.Gid)
        THEN SpecErr(b1, g, "gid " \o ToString(r.ids.Gid) \o " exceeds range")
        ELSE IF b.proot # {}
        THEN IF Deref(b.proot).Path = ""
             THEN SpecErr(b1, g, "proot user or port mappings specified but no proot path provided")
             ELSE SpecApply(b1, g, UserIds(0, 0))
        ELSE IF RootlessRefused(b, r.ids)
        THEN SpecErr(b1, g, "rootless container: only user 0:0 supported but "
                            \o UserString(b1.user)
                            \o " provided. hint: enable proot as a workaround")
        ELSE SpecApply(b1, g, r.ids)

\* a call of Spec; what it returned is kept with the builder and the spec
\* it was called on, the ids the user resolved to and the seccomp calls made
\* before
BuilderSpec ==
    /\ Len(rets) < MaxSpecCalls
    /\ sb' = SpecOf(sb, gspec).b
    /\ gspec' = SpecOf(sb, gspec).g
    /\ rets' = Append(rets, [err |-> SpecOf(sb, gspec).err,
                             spec |-> SpecOf(sb, gspec).g,
                             added |-> SpecOf(sb, gspec).added,
                             installed |-> SpecOf(sb, gspec).installed,
                             b |-> sb, g |-> gspec,
                             usr |-> Resolve(sb.user),
                             called |-> sbghost.called])
    /\ UNCHANGED <<sbghost, bvars, dfvars, lkvars, tvars>>

\* the user, the arguments and proot
NextSpecBuilder ==
    \/ ToRootless
    \/ SetProcessUser
    \/ SetPRootPath
    \/ AddPRootPortMapping
    \/ SetProcessEntrypoint
    \/ SetProcessCmd
    \/ ApplyImage
    \/ BuilderSpec

SpecSpecBuilder == Init /\ [][NextSpecBuilder]_vars

\* the seccomp profile
NextSeccomp ==
    \/ ToRootless
    \/ SetProcessUser
    \/ SetLinuxSeccompDefault
    \/ SetLinuxSeccompUnconfined
    \/ SetLinuxSeccomp
    \/ SetPRootPath
    \/ BuilderSpec

SpecSeccomp == Init /\ [][NextSeccomp]_vars

\* the exposed ports
NextExposedPorts ==
    \/ AddExposedPorts
    \/ ApplyImage
    \/ SetProcessUser
    \/ BuilderSpec

SpecExposedPorts == Init /\ [][NextExposedPorts]_vars

(***************************************************************************)
(* Properties of the runtime spec that Spec returns                        *)
(***************************************************************************)
\* the value of a slice that may be nil
Elems(s) == IF s = {} THEN <<>> ELSE Deref(s)

\* "-p" before each port
PortFlags(ports) == [i \in 1..(2 * Len(ports)) |-> IF i % 2 = 1 THEN "-p" ELSE ports[i \div 2]]

\* the arguments the returned spec is to have, from the builder Spec was
\* called on and the ids its user resolved to
ArgsFor(b, ids) ==
    IF b.proot # {}
    THEN <<"/dev/proot/proot", "--kill-on-exit", "-n">>
         \o (IF ids.Uid = 0 /\ ids.Gid = 0 THEN <<"-0">>
             ELSE <<"-i", ToString(ids.Uid) \o ":" \o ToString(ids.Gid)>>)
         \o PortFlags(Deref(b.proot).Ports)
         \o Elems(b.entrypoint) \o Elems(b.cmd)
    ELSE Elems(b.entrypoint) \o Elems(b.cmd)

\* C24: the process args of every spec that Spec returns are the arguments
\* of proot (the binary, --kill-on-exit, -n, then -0 for the user 0:0 and
\* -i UID:GID for another, then -p with each port mapping in the order they
\* were added) followed by entrypoint and cmd when proot is set, entrypoint
\* and cmd without it; a Spec call that follows a Spec call returns the same
\* args
Inv_C24_ProcessArgs ==
    \A i \in 1..Len(rets) :
        rets[i].err = "nil" =>
            /\ rets[i].spec.args = ArgsFor(rets[i].b, rets[i].usr.ids)
            /\ \A p \in Range(Elems({x.Ports : x \in rets[i].b.proot})) :
                   p \in {"8080:80", "8443:80"}
            /\ i > 1 /\ rets[i - 1].err = "nil" => rets[i].spec.args = rets[i - 1].spec.args

Wit_C24_PRootArgsTwice ==
    /\ Len(rets) = 2
    /\ rets[1].err = "nil" /\ rets[2].err = "nil"
    /\ rets[1].b.user = User("100", "100")
    /\ rets[2].spec.args = <<"/dev/proot/proot", "--kill-on-exit", "-n", "-i", "100:100",
                             "-p", "8443:80", "-p", "8080:80", "/entry", "-x", "arg">>

\* Spec was called in rootless mode on a builder without proot
RootlessNoPRoot(r) == r.b.rootless /\ r.b.proot = {}

\* Spec was called on a builder with the path of proot set
PRootSet(r) == r.b.proot # {} /\ \A x \in r.b.proot : x.Path # ""

\* the user resolved, to ids that pass the range check of Spec
InRange(r) == r.usr.err = "nil" /\ r.usr.ids.Uid <= IdLimit /\ r.usr.ids.Gid <= IdLimit

\* C25: in rootless mode without proot, Spec returns an error for every
\* user that resolves to a uid or gid other than 0 and a spec for a user
\* that resolves to 0:0; with the path of proot set, every user that
\* resolves to ids within the range Spec accepts gets a spec, and the uid and
\* gid of its process are 0
Inv_C25_RootlessUser ==
    \A i \in 1..Len(rets) :
        LET r == rets[i]
        IN  /\ RootlessNoPRoot(r) /\ r.usr.err = "nil" =>
                   (r.err = "nil" <=> (r.usr.ids.Uid = 0 /\ r.usr.ids.Gid = 0))
            /\ PRootSet(r) /\ InRange(r) =>
                   r.err = "nil" /\ r.spec.uid = 0 /\ r.spec.gid = 0

Wit_C25_PRootTakesRefusedUser ==
    /\ Len(rets) = 1
    /\ rets[1].b.rootless /\ PRootSet(rets[1])
    /\ rets[1].usr.ids = UserIds(0, 100)
    /\ rets[1].err = "nil"
    /\ rets[1].spec.uid = 0 /\ rets[1].spec.gid = 0

\* C25 as stated: with the path of proot set, every user that resolves is
\* accepted
Cex_C25_PRootAcceptsEveryUser ==
    \A i \in 1..Len(rets) :
        PRootSet(rets[i]) /\ rets[i].usr.err = "nil" =>
            rets[i].err = "nil" /\ rets[i].spec.uid = 0 /\ rets[i].spec.gid = 0

\* the mappings of the caller's ids to 0 in the container
CallerToRoot(spec) ==
    /\ spec.uidMappings = <<IDMapping(Euid, 0, 1)>>
    /\ spec.gidMappings = <<IDMapping(Egid, 0, 1)>>

\* in rootless mode without proot every spec returned maps the caller's
\* ids, and nothing else, to 0, also when Spec is called again
RootlessMapsCallerToRoot ==
    \A i \in 1..Len(rets) :
        RootlessNoPRoot(rets[i]) /\ rets[i].err = "nil" => CallerToRoot(rets[i].spec)

\* C26: in rootless mode without proot every spec returned has one uid and
\* one gid mapping, of size 1, from the caller's euid and egid to 0, and
\* with proot Spec adds no uid or gid mapping
Cex_C26_NoMappingWithPRoot ==
    /\ RootlessMapsCallerToRoot
    /\ \A i \in 1..Len(rets) :
           PRootSet(rets[i]) /\ rets[i].err = "nil" => rets[i].added = <<>>

\* without proot the process of every spec returned has the ids the user
\* resolved to
ProcessIdsAsResolved ==
    \A i \in 1..Len(rets) :
        rets[i].err = "nil" /\ rets[i].b.proot = {} =>
            /\ rets[i].spec.uid = rets[i].usr.ids.Uid
            /\ rets[i].spec.gid = rets[i].usr.ids.Gid

\* C27: Spec returns an error for every uid or gid that does not fit into
\* the width of the ids of the spec (2^IdBits and more), so the uid and gid
\* of the process always are the resolved ids, never truncated ones
Cex_C27_OversizeIdRejected ==
    /\ \A i \in 1..Len(rets) :
           /\ rets[i].usr.err = "nil"
           /\ rets[i].usr.ids.Uid >= IdLimit \/ rets[i].usr.ids.Gid >= IdLimit
           => rets[i].err # "nil"
    /\ ProcessIdsAsResolved

\* C28: Spec installs the default profile, derived from the spec it
\* returns, if and only if neither SetLinuxSeccomp nor
\* SetLinuxSeccompUnconfined was called before, and leaves the profile of
\* the spec as it was otherwise; the spec has the profile given to
\* SetLinuxSeccomp while that is the last profile set, and the profile set by
\* SetLinuxSeccompUnconfined allows by default and has no syscall rule
Inv_C28_SeccompProfile ==
    /\ \A i \in 1..Len(rets) :
           rets[i].err = "nil" =>
               /\ rets[i].installed <=> rets[i].called = {}
               /\ rets[i].installed => rets[i].spec.seccomp = DefaultProfile(rets[i].spec)
               /\ ~rets[i].installed => rets[i].spec.seccomp = rets[i].g.seccomp
    /\ sbghost.seccomp = "SetLinuxSeccomp" => gspec.seccomp = Deref(sbghost.given)
    /\ sbghost.seccomp = "SetLinuxSeccompUnconfined" =>
           /\ gspec.seccomp.DefaultAction = "SCMP_ACT_ALLOW"
           /\ gspec.seccomp.Syscalls = {}

Wit_C28_CustomProfileKept ==
    /\ Len(rets) = 2
    /\ rets[2].err = "nil"
    /\ ~rets[2].installed
    /\ sbghost.seccomp = "SetLinuxSeccomp"
    /\ rets[2].spec.seccomp = CustomProfile
    /\ "CAP_SYS_PTRACE" \in rets[2].spec.caps

\* calling AddExposedPorts twice with the same list is calling it once, and
\* the order of the list does not matter
AddExposedPortsIdempotent ==
    \A l \in PortLists :
        /\ AddExposedPortsTo(AddExposedPortsTo(gspec, l), l) = AddExposedPortsTo(gspec, l)
        /\ \A m \in PortLists :
               Range(l) = Range(m) => AddExposedPortsTo(gspec, l) = AddExposedPortsTo(gspec, m)

\* the sorted list, without duplicates, of all the ports given so far to
\* AddExposedPorts and in the configs of the images applied, joined by commas
PortsGiven == StringsJoin(SortStrings({StringsTrim(p, " ") : p \in sbghost.ports}), ",")

\* C29: after any sequence of AddExposedPorts and ApplyImage calls the
\* exposedPorts annotation is the sorted union of all the ports given, and
\* AddExposedPorts is idempotent and independent of the order of its list
Cex_C29_AnnotationIsSortedUnion ==
    /\ AddExposedPortsIdempotent
    /\ gspec.exposedPorts = PortsGiven

\* the annotation is the sorted union of the ports given while none of the
\* ports of the image configs was given
PortsMergedByAddExposedPorts ==
    /\ AddExposedPortsIdempotent
    /\ sbghost.ports \cap {P443, P9} = {} => gspec.exposedPorts = PortsGiven

(***************************************************************************)
(* Unpacking a tar entry into a rootfs: the tests of unpackEntry           *)
(* (TestUnpackEntrySanitiseScoping, TestUnpackEntrySymlinkScoping); the    *)
(* function itself is modelled from the specification of Unpack.  A path   *)
(* of the file system is the sequence of its elements from "/".            *)
(***************************************************************************)
\* a path as it is written in a tar header or in a symlink: absolute or
\* not, and its elements, "." and ".." among them
PathString(abs, elems) == [abs |-> abs, elems |-> elems]

\* the prefixes of the tests: "/..", "..", "/", "/../", "/../../../",
\* "/./.././../"
SanitisePrefixes == {PathString(TRUE, <<"..">>), PathString(FALSE, <<"..">>)}
SymlinkPrefixes ==
    {PathString(TRUE, <<>>), PathString(TRUE, <<"..">>),
     PathString(TRUE, <<"..", "..", "..">>), PathString(TRUE, <<".", "..", ".", "..">>),
     PathString(FALSE, <<"..">>)}

\* hdr.Name: prefix + "/" + filepath.Base(file)
NameOf(prefix, file) == PathString(prefix.abs, Append(prefix.elems, file))

\* the names of the entries: those of the two tests, a name of its own
\* directory and one that leaves it
EntryNames ==
    {NameOf(p, "file") : p \in SanitisePrefixes}
    \cup {PathString(FALSE, <<"link", "file">>), PathString(FALSE, <<"a", "file">>),
          PathString(FALSE, <<"a", "..", "..", "file">>)}

Front(l) == SubSeq(l, 1, Len(l) - 1)

IsPrefix(a, l) == Len(a) <= Len(l) /\ SubSeq(l, 1, Len(a)) = a

\* lexical cleaning of a name, with "/" in front of it: "." is dropped and
\* ".." takes back an element, none at "/"
RECURSIVE CleanFrom(_, _)
CleanFrom(done, elems) ==
    IF elems = <<>> THEN done
    ELSE CleanFrom(CASE Head(elems) = "." -> done
                     [] Head(elems) = ".." -> IF done = <<>> THEN <<>> ELSE Front(done)
                     [] OTHER -> Append(done, Head(elems)),
                   Tail(elems))

CleanPath(name) == CleanFrom(<<>>, name.elems)

\* ".." that leaves the root
Up_Unscoped(root, cur) == IF cur = <<>> THEN <<>> ELSE Front(cur)

\* ".." during the resolution below root: the parent, and root at root
Up(root, cur) == IF cur = root THEN root ELSE Front(cur)

\* resolution of the elements rest below root, from the directory cur on:
\* a symlink with an absolute target starts again at root (the links of the
\* tests do not lead to one another)
RECURSIVE SecureJoinFrom(_, _, _, _)
SecureJoinFrom(fsys, root, cur, rest) ==
    IF rest = <<>> THEN cur
    ELSE IF Head(rest) = "." THEN SecureJoinFrom(fsys, root, cur, Tail(rest))
    ELSE IF Head(rest) = ".." THEN SecureJoinFrom(fsys, root, Up(root, cur), Tail(rest))
    ELSE IF Append(cur, Head(rest)) \in DOMAIN fsys
            /\ fsys[Append(cur, Head(rest))].type = "symlink"
    THEN SecureJoinFrom(fsys, root,
                        IF fsys[Append(cur, Head(rest))].target.abs THEN root ELSE cur,
                        fsys[Append(cur, Head(rest))].target.elems \o Tail(rest))
    ELSE SecureJoinFrom(fsys, root, Append(cur, Head(rest)), Tail(rest))

SecureJoin(fsys, root, unsafePath) == SecureJoinFrom(fsys, root, root, unsafePath)

\* the path unpackEntry writes the entry to: the directory of the cleaned
\* name resolved below root, and the last element of the name in it
TargetPath(fsys, root, name) ==
    Append(SecureJoin(fsys, root, Front(CleanPath(name))), CleanPath(name)[Len(CleanPath(name))])

\* the directories above path, path itself excluded
Parents(path) == {SubSeq(path, 1, n) : n \in 0..(Len(path) - 1)}

\* unpackEntry(root, hdr, r) for a regular file: the file system afterwards
\* and the error; missing parent directories are made, what the path held
\* is replaced
unpackEntry(fsys, root, name, content) ==
    LET path == TargetPath(fsys, root, name)
    IN  IF \E d \in Parents(path) : d \in DOMAIN fsys /\ fsys[d].type # "dir"
        THEN [fs |-> fsys, path |-> path, err |-> "not a directory"]
        ELSE [fs |-> [p \in DOMAIN fsys \cup Parents(path) \cup {path} |->
                         IF p = path THEN RegNode(content)
                         ELSE IF p \in DOMAIN fsys THEN fsys[p]
                         ELSE DirNode],
              path |-> path, err |-> "nil"]

\* os.Symlink(test.prefix, filepath.Join(rootfs, "link"))
Symlink ==
    \E prefix \in SymlinkPrefixes :
        /\ Append(Rootfs, "link") \notin DOMAIN tfs
        /\ tfs' = [p \in DOMAIN tfs \cup {Append(Rootfs, "link")} |->
                      IF p \in DOMAIN tfs THEN tfs[p] ELSE SymlinkNode(prefix)]
        /\ UNCHANGED <<unpacked, te, bvars, dfvars, lkvars, sbvars>>

\* te.unpackEntry(rootfs, hdr, bytes.NewBuffer(ctrValue))
UnpackEntry ==
    \E name \in EntryNames :
        /\ Len(unpacked) < MaxEntries
        /\ tfs' = unpackEntry(tfs, Rootfs, name, "container content").fs
        /\ unpacked' = Append(unpacked,
                              [name |-> name, fs |-> tfs,
                               path |-> unpackEntry(tfs, Rootfs, name, "container content").path,
                               err |-> unpackEntry(tfs, Rootfs, name, "container content").err])
        /\ UNCHANGED <<te, bvars, dfvars, lkvars, sbvars>>

NextUnpack ==
    \/ Symlink
    \/ UnpackEntry

SpecUnpack == Init /\ [][NextUnpack]_vars

(***************************************************************************)
(* Properties of unpackEntry                                               *)
(***************************************************************************)
\* the path, from the root of the rootfs, that the elements lead to when the
\* rootfs is the root of the file system: ".." at the root stays there, a
\* symlink with an absolute target leads to the root
RECURSIVE InRootfs(_, _, _)
InRootfs(fsys, at, elems) ==
    IF elems = <<>> THEN at
    ELSE LET e == Head(elems)
             to == Rootfs \o Append(at, e)
         IN  CASE e = "." -> InRootfs(fsys, at, Tail(elems))
               [] e = ".." -> InRootfs(fsys, IF at = <<>> THEN <<>> ELSE Front(at), Tail(elems))
               [] OTHER ->
                    IF Tail(elems) # <<>> /\ to \in DOMAIN fsys /\ fsys[to].type = "symlink"
                    THEN InRootfs(fsys, IF fsys[to].target.abs THEN <<>> ELSE at,
                                  fsys[to].target.elems \o Tail(elems))
                    ELSE InRootfs(fsys, Append(at, e), Tail(elems))

\* C30: unpackEntry writes inside the rootfs only: nothing outside the
\* rootfs is created, the file of the host keeps its content, and every
\* entry is written, with its content, at the path its name leads to when
\* the rootfs is the root of the file system
Inv_C30_UnpackStaysInRootfs ==
    /\ \A p \in DOMAIN tfs : ~IsPrefix(Rootfs, p) => p \in DOMAIN TestFS /\ tfs[p] = TestFS[p]
    /\ \A i \in 1..Len(unpacked) :
           /\ IsPrefix(Rootfs, unpacked[i].path)
           /\ unpacked[i].path = Rootfs \o InRootfs(unpacked[i].fs, <<>>, unpacked[i].name.elems)
           /\ unpacked[i].err = "nil"
           /\ i = Len(unpacked) => tfs[unpacked[i].path] = RegNode("container content")

Wit_C30_ThroughSymlinkToParent ==
    /\ Len(unpacked) = 2
    /\ unpacked[1].name = PathString(TRUE, <<"..", "file">>)
    /\ unpacked[2].name = PathString(FALSE, <<"link", "file">>)
    /\ Append(Rootfs, "link") \in DOMAIN unpacked[2].fs
    /\ unpacked[2].fs[Append(Rootfs, "link")] = SymlinkNode(PathString(FALSE, <<"..">>))
    /\ unpacked[2].path = Append(Rootfs, "file")
    /\ tfs[HostFile] = RegNode("host content")

(***************************************************************************)
(* Opaque whiteouts (TestUnpackOpaqueWhiteout): a directory test-subdir    *)
(* is made in the test directory, a first extractor unpacks the entries of *)
(* the lower layer into it, a second one the entries of the upper layer    *)
(* and then the opaque whiteout of the directory.  The log unpacked holds, *)
(* for every entry, the extractor that unpacked it.                        *)
(***************************************************************************)
whiteoutDir == "test-subdir"
whiteoutRoot == Append(TestDir, whiteoutDir)
whOpaque == ".wh..wh..opq"

\* the pseudo headers of the test cases: a file, a symlink, a directory and
\* a file in the directory
PseudoHeaders ==
    { [path |-> <<"file">>, node |-> RegNode("")],
      [path |-> <<"link">>, node |-> SymlinkNode(PathString(FALSE, <<"..">>))],
      [path |-> <<"dir">>, node |-> DirNode],
      [path |-> <<"dir", "file">>, node |-> RegNode("")] }

\* hdr.Name = filepath.Join(whiteoutDir, hdr.Name)
HdrName(path) == PathString(FALSE, <<whiteoutDir>> \o path)

\* p lies below the directory d
Below(d, p) == IsPrefix(d, p) /\ p # d

\* unpackEntry of an entry that is made: missing parent directories are
\* made, a directory that exists keeps its children, anything else the path
\* held is replaced
unpackNode(fsys, root, name, node) ==
    LET path == TargetPath(fsys, root, name)
        kept == IF node.type = "dir" /\ path \in DOMAIN fsys /\ fsys[path].type = "dir"
                THEN DOMAIN fsys
                ELSE {p \in DOMAIN fsys : ~Below(path, p)}
    IN  IF \E d \in Parents(path) : d \in DOMAIN fsys /\ fsys[d].type # "dir"
        THEN [fs |-> fsys, path |-> path, err |-> "not a directory"]
        ELSE [fs |-> [p \in kept \cup Parents(path) \cup {path} |->
                         IF p = path THEN node
                         ELSE IF p \in DOMAIN fsys THEN fsys[p]
                         ELSE DirNode],
              path |-> path, err |-> "nil"]

\* unpackEntry of the opaque whiteout of a directory: all children of the
\* directory are removed, the directory stays as it is, nothing is made
unpackOpaque(fsys, root, name) ==
    LET dir == SecureJoin(fsys, root, Front(CleanPath(name)))
    IN  [fs |-> [p \in {q \in DOMAIN fsys : ~Below(dir, q)} |-> fsys[p]],
         path |-> dir, err |-> "nil"]

\* te.unpackEntry(dir, hdr, rdr)
unpackHeader(fsys, root, name, node) ==
    IF CleanPath(name)[Len(CleanPath(name))] = whOpaque
    THEN unpackOpaque(fsys, root, name)
    ELSE unpackNode(fsys, root, name, node)

\* the opaque whiteout has been unpacked
WhiteoutDone ==
    unpacked # <<>> /\ unpacked[Len(unpacked)].name = HdrName(<<whOpaque>>)

\* os.MkdirAll(whiteoutRoot, 0755)
MkdirAll ==
    /\ whiteoutRoot \notin DOMAIN tfs
    /\ tfs' = [p \in DOMAIN tfs \cup {whiteoutRoot} |->
                  IF p \in DOMAIN tfs THEN tfs[p] ELSE DirNode]
    /\ UNCHANGED <<unpacked, te, bvars, dfvars, lkvars, sbvars>>

\* te := newTarExtractor(MapOptions{}): the first extractor unpacks the
\* entries that are not upper, the second the upper ones and the whiteout
NewTarExtractor ==
    /\ whiteoutRoot \in DOMAIN tfs
    /\ te < 2
    /\ te' = te + 1
    /\ UNCHANGED <<tfs, unpacked, bvars, dfvars, lkvars, sbvars>>

\* te.unpackEntry(dir, hdr, rdr) for a pseudo header
UnpackPseudoHdr ==
    \E ph \in PseudoHeaders :
        /\ te >= 1
        /\ ~WhiteoutDone
        /\ Len(unpacked) < MaxHeaders
        /\ \A i \in 1..Len(unpacked) :
               ~(unpacked[i].name = HdrName(ph.path) /\ unpacked[i].te = te)
        /\ tfs' = unpackHeader(tfs, TestDir, HdrName(ph.path), ph.node).fs
        /\ unpacked' = Append(unpacked,
                              [name |-> HdrName(ph.path), te |-> te,
                               path |-> unpackHeader(tfs, TestDir, HdrName(ph.path), ph.node).path,
                               err |-> unpackHeader(tfs, TestDir, HdrName(ph.path), ph.node).err])
        /\ UNCHANGED <<te, bvars, dfvars, lkvars, sbvars>>

\* te.unpackEntry(dir, whHdr, nil) by the extractor of the upper entries
UnpackOpaqueWhiteout ==
    /\ te = 2
    /\ ~WhiteoutDone
    /\ tfs' = unpackHeader(tfs, TestDir, HdrName(<<whOpaque>>), RegNode("")).fs
    /\ unpacked' = Append(unpacked,
                          [name |-> HdrName(<<whOpaque>>), te |-> te,
                           path |-> unpackHeader(tfs, TestDir, HdrName(<<whOpaque>>), RegNode("")).path,
                           err |-> unpackHeader(tfs, TestDir, HdrName(<<whOpaque>>), RegNode("")).err])
    /\ UNCHANGED <<te, bvars, dfvars, lkvars, sbvars>>

NextWhiteout ==
    \/ MkdirAll
    \/ NewTarExtractor
    \/ UnpackPseudoHdr
    \/ UnpackOpaqueWhiteout

SpecWhiteout == Init /\ [][NextWhiteout]_vars

(***************************************************************************)
(* Properties of the opaque whiteout                                       *)
(***************************************************************************)
\* the paths the extractor that unpacked the whiteout has unpacked before it
UpperPaths ==
    {unpacked[i].path : i \in {j \in 1..(Len(unpacked) - 1) :
                                   unpacked[j].te = unpacked[Len(unpacked)].te
                                   /\ unpacked[j].err = "nil"}}

\* the paths only an earlier extractor has unpacked
LowerPaths ==
    {unpacked[i].path : i \in {j \in 1..(Len(unpacked) - 1) :
                                   unpacked[j].te # unpacked[Len(unpacked)].te}}
    \ UpperPaths

\* the entries of lower layers are gone (a directory above an entry of the
\* extractor set aside) and the directory is still a directory
LowerRemoved ==
    /\ \A p \in LowerPaths : (\A u \in UpperPaths : ~IsPrefix(p, u)) => p \notin DOMAIN tfs
    /\ whiteoutRoot \in DOMAIN tfs
    /\ tfs[whiteoutRoot].type = "dir"
    /\ UpperPaths = {} => \A p \in DOMAIN tfs : ~Below(whiteoutRoot, p)

\* C31: after the opaque whiteout of a directory is unpacked, the entries
\* the same extractor unpacked into the directory before are still there,
\* the entries of lower layers are gone, and the directory is still a
\* directory, empty when the extractor unpacked nothing into it
Cex_C31_OpaqueWhiteoutKeepsUpper ==
    WhiteoutDone =>
        /\ \A p \in UpperPaths : p \in DOMAIN tfs
        /\ LowerRemoved

\* what holds of the whiteout: the lower entries are removed
WhiteoutRemovesLower == WhiteoutDone => LowerRemoved

(***************************************************************************)
(* Properties of RUN in a bundle that is in use                            *)
(***************************************************************************)
\* the last operation was a RUN that ran its command and committed a layer,
\* and no collaborator has failed so far
RunCommitted ==
    /\ last.op = "Run"
    /\ last.err = "nil"
    /\ last.commits # <<>>
    /\ nfaults = 0

\* C32: a RUN executes in the working directory the configuration holds
\* when it is called, also when the working directory was set after an
\* earlier RUN made the bundle, and the image the RUN commits carries that
\* working directory
Cex_C32_ConfigAppliedToBundle ==
    RunCommitted =>
        /\ last.post.bundles[last.post.bundle].cwd = last.pre.config.WorkingDir
        /\ last.post.config.WorkingDir = last.pre.config.WorkingDir

\* what holds of the bundle: a RUN executes in the working directory of the
\* image the bundle was made from
RunInBundleCwd ==
    RunCommitted =>
        \/ last.pre.bundle = 0
           /\ last.post.bundles[last.post.bundle].cwd = last.pre.config.WorkingDir
        \/ last.pre.bundle # 0
           /\ last.post.bundles[last.post.bundle].cwd = last.pre.bundles[last.pre.bundle].cwd

(***************************************************************************)
(* Properties of the cache key of RUN                                      *)
(***************************************************************************)
\* the fingerprint BuildState.Run computes for a Run call of the Dockerfile:
\* comment := fmt.Sprintf("RUN /bin/sh -c %q", cmd), without the build args
\* the call carries
RunFingerprint(call) == FP("RUN /bin/sh -c", call.args)

\* the key under which cached looks the RUN up and stores its image
RunCacheKey(parent, call) == [parent |-> parent, fp |-> RunFingerprint(call)]

\* C33: two Run calls with the same command and different build args have
\* different fingerprints, so on the same parent image their cache keys
\* differ
Cex_C33_BuildArgsInFingerprint ==
    \A i, j \in 1..Len(bcalls) :
        (/\ bcalls[i].call = "Run" /\ bcalls[j].call = "Run"
         /\ bcalls[i].args = bcalls[j].args
         /\ bcalls[i].env # bcalls[j].env) =>
            /\ RunFingerprint(bcalls[i]) # RunFingerprint(bcalls[j])
            /\ \A parent \in {{}} \cup {{Registry[n]} : n \in DOMAIN Registry} :
                   RunCacheKey(parent, bcalls[i]) # RunCacheKey(parent, bcalls[j])

(***************************************************************************)
(* Properties of the parent of a layer commit                              *)
(***************************************************************************)
\* the ids of the images in a set of at most one image
IdsOf(img) == {ImageID(i) : i \in img}

\* C34: every layer commit of an operation is made on top of the image the
\* state held when the operation was called, and after a successful layer
\* commit the bundle records the new image of the state as its parent
Cex_C34_LayerOnCurrentImage ==
    /\ \A i \in 1..Len(last.commits) :
           last.commits[i].kind = "layer" =>
               IdsOf(last.commits[i].parent) = IdsOf(last.pre.image)
    /\ (last.err = "nil" /\ \E i \in 1..Len(last.commits) : last.commits[i].kind = "layer") =>
           IdsOf(last.post.bundles[last.post.bundle].image) = IdsOf(last.post.image)

\* what holds of a layer commit: its parent is the image the bundle records
LayerOnBundleImage ==
    /\ \A i \in 1..Len(last.commits) :
           last.commits[i].kind = "layer" =>
               /\ last.pre.bundle = 0 =>
                      IdsOf(last.commits[i].parent) = IdsOf(last.pre.image)
               /\ last.pre.bundle # 0 =>
                      IdsOf(last.commits[i].parent)
                          = IdsOf(last.pre.bundles[last.pre.bundle].image)
    /\ (last.err = "nil" /\ \E i \in 1..Len(last.commits) : last.commits[i].kind = "layer") =>
           IdsOf(last.post.bundles[last.post.bundle].image) = IdsOf(last.post.image)

(***************************************************************************)
(* Properties of the bundles of a build                                    *)
(***************************************************************************)
\* C35: when Build has returned, with an image or with an error, every
\* bundle made during a build is unlocked and has been closed exactly once
Inv_C35_BundlesClosedOnce ==
    phase = "idle" =>
        \A i \in 1..Len(bundles) : ~bundles[i].locked /\ bundles[i].closes = 1

\* a build returned an error from an operation that left its bundle locked
\* and referenced, and the bundle has been closed once
Wit_C35_ClosedAfterLateError ==
    /\ phase = "idle"
    /\ results # <<>>
    /\ results[Len(results)].err \notin {"nil", "panic"}
    /\ last.err # "nil"
    /\ last.post.bundle # 0
    /\ last.post.bundles[last.post.bundle].locked
    /\ ~bundles[last.post.bundle].locked
    /\ bundles[last.post.bundle].closes = 1

(***************************************************************************)
(* Properties of the result of Build                                       *)
(***************************************************************************)
\* C36: Build returns no error only if the operation of every step it ran
\* succeeded, and then it returns the image of the state, which is not nil;
\* a failed operation of any step makes Build return an error, Build never
\* dereferences a nil image, and without steps it returns an error
Cex_C36_BuildReportsStepFailure ==
    (phase = "idle" /\ results # <<>>) =>
        /\ results[Len(results)].err # "panic"
        /\ results[Len(results)].err = "nil" =>
               /\ \A i \in 1..Len(ran) : ran[i].opErr = "nil"
               /\ results[Len(results)].image # {}
               /\ results[Len(results)].image = image
        /\ steps = <<>> => results[Len(results)].err # "nil"

\* what holds of Build: it returns no error only if every step other than
\* SetAuthor succeeded, and without steps it returns an error
BuildReportsOtherFailures ==
    (phase = "idle" /\ results # <<>>) =>
        /\ results[Len(results)].err = "nil" =>
               /\ \A i \in 1..Len(ran) :
                      steps[ran[i].step].op # "SetAuthor" => ran[i].opErr = "nil"
               /\ results[Len(results)].image # {}
               /\ results[Len(results)].image = image
        /\ steps = <<>> => results[Len(results)].err # "nil"

(***************************************************************************)
(* Properties of the process of a RUN                                      *)
(***************************************************************************)
\* the last operation was a RUN that started its container
RunStarted ==
    /\ last.op = "Run"
    /\ \E i \in 1..Len(last.calls) : last.calls[i] = "Container.Start"

\* the bundle the last operation ran in: the one the state held, or the one
\* the operation made
RunBundle ==
    IF last.pre.bundle # 0 THEN last.post.bundles[last.pre.bundle]
    ELSE last.post.bundles[Len(last.post.bundles)]

PRootPrefix == <<"/dev/proot/proot", "--kill-on-exit", "-n">>

\* C37: with a proot path, every RUN starts its container with process args
\* that begin with the proot prefix, in a new bundle and in a bundle an
\* earlier RUN made
Cex_C37_EveryRunUnderPRoot ==
    (RunStarted /\ proot # "") => IsPrefix(PRootPrefix, RunBundle.args)

\* what holds of RUN: in a new bundle the process args begin with the proot
\* prefix exactly when there is a proot path
NewBundleUnderPRoot ==
    (RunStarted /\ last.pre.bundle = 0) =>
        (proot # "" <=> IsPrefix(PRootPrefix, RunBundle.args))

(***************************************************************************)
(* Properties of a RUN whose bundle cannot be prepared                     *)
(***************************************************************************)
\* the last operation made the call
Called(call) == \E i \in 1..Len(last.calls) : last.calls[i] = call

\* the last operation made the call and the call failed
Failed(call, fault) == Called(call) /\ fault \in last.faults

\* the last operation committed a layer
LayerCommitted == \E i \in 1..Len(last.commits) : last.commits[i].kind = "layer"

\* C38: a RUN whose bundle could not be made, whose spec could not be read
\* or whose new spec could not be written returns an error, starts no
\* container and commits no layer; a RUN that starts its container runs its
\* own command
Cex_C38_RunStopsWhenBundleFails ==
    last.op = "Run" =>
        /\ (\/ Failed("CreateBundle", "create")
            \/ Failed("Bundle.Spec", "spec")
            \/ Failed("Bundle.SetSpec", "setspec")) =>
               /\ last.err # "nil"
               /\ ~Called("Container.Start")
               /\ ~LayerCommitted
        /\ RunStarted => RunBundle.args[Len(RunBundle.args)] = last.arg[1]

\* what holds of RUN: it stops when the bundle cannot be made or its spec
\* cannot be read, and it runs its own command unless SetSpec failed
RunStopsWhenBundleUnreadable ==
    last.op = "Run" =>
        /\ (Failed("CreateBundle", "create") \/ Failed("Bundle.Spec", "spec")) =>
               /\ last.err # "nil"
               /\ ~Called("Container.Start")
               /\ ~LayerCommitted
        /\ (RunStarted /\ ~Failed("Bundle.SetSpec", "setspec")) =>
               RunBundle.args[Len(RunBundle.args)] = last.arg[1]

(***************************************************************************)
(* Properties of applying a Dockerfile twice                               *)
(***************************************************************************)
\* the position of the start of the second Apply in the calls, 0 for none
MarkAt ==
    IF \E i \in 1..Len(bcalls) : bcalls[i] = ApplyMark
    THEN CHOOSE i \in 1..Len(bcalls) : bcalls[i] = ApplyMark
    ELSE 0

\* the calls of the first and of the second Apply
FirstCalls == SubSeq(bcalls, 1, MarkAt - 1)
SecondCalls == SubSeq(bcalls, MarkAt + 1, Len(bcalls))

\* both applications have returned, with no call failing
AppliedTwice ==
    /\ dfPhase = "applied"
    /\ MarkAt # 0
    /\ applyErr = "nil"
    /\ \A i \in 1..Len(bcalls) : bcalls[i].err = "nil"

\* C39: applying a loaded Dockerfile to two new builders makes the same
\* calls with the same arguments in the same order: SetAuthor for each
\* maintainer label, AddLabels with the other labels, and the build names
\* of the stages, counted from 0, each time
Cex_C39_ApplyRepeatable ==
    AppliedTwice => FirstCalls = SecondCalls

\* the calls without those that the label and from closures make
\* differently: SetAuthor of a label and the number of a stage
RepeatableCalls(calls) ==
    SelectSeq(calls, LAMBDA c : c.call \notin {"SetAuthor", "BuildName"})

\* what holds of a second application: the other calls are the same
OtherCallsRepeatable ==
    AppliedTwice => RepeatableCalls(FirstCalls) = RepeatableCalls(SecondCalls)

====
